---- MODULE Spec2Model ----
(***************************************************************************)
(* Portfolio tracker: the fee-aware pricing engine (lib/portfolio.py,      *)
(* daily_portfolio_report.py, send_wechat_cpf.py) and the technical        *)
(* indicator engine (lib/technicals.py).                                   *)
(*                                                                         *)
(* Python floats are modelled in fixed point.  Money and prices of the     *)
(* pricing engine are integers in ticks of 1/TicksPerDollar dollar; every  *)
(* float multiplication or division is the exact operation followed by     *)
(* rounding to the nearest tick, in the order the code applies them.       *)
(***************************************************************************)
EXTENDS Integers, Sequences, FiniteSets, TLC

VARIABLES
    \* ---- fee quotes: successive calls of calc_tx_fee ----
    q_impl, q_n, q_amount, q_fee, q_prev_amount, q_prev_fee,
    \* ---- one call of breakeven_price / calculate_breakeven_price ----
    solver,          \* which implementation runs
    cost, shares,    \* the arguments
    p_pc,            \* position in the function
    buy_amount, buy_fee, total_buy_cost,
    target, iters, sell_amt, sell_fee, net,
    result,          \* the returned price, or None before the return
    \* ---- one call of technicals.analyze ----
    hist,            \* the argument: None, or the close and volume columns
    weights,         \* config.scoring_weights()
    t_pc,            \* position in the function
    ind,             \* the indicators, once computed
    score, signal,
    snapshot,        \* the returned value
    \* ---- lib/config.py ----
    cache,           \* the module-level _cache: None, or the loaded config
    file_reads,      \* how many times config.json has been opened
    \* ---- one call of analyze_stock_risk, or of the calc_* functions ----
    r_entry,         \* which entry point runs
    r_pc,            \* position in the function
    supplied,        \* what yf.Ticker(symbol).history(period) does
    r_hist,          \* hist
    returns, vol, mdd, var, sharpe, sortino,
    stock_risk,      \* the returned value
    confidence_levels, \* the levels a caller asks calc_var for, in thousandths
    var_levels,      \* what calc_var returned for them: key -> value
    \* ---- lib/fundamentals.py: calls of fetch_fundamentals over the days ----
    now,             \* datetime.now(), in clock ticks
    cache_file,      \* output/fundamentals_cache.json: None, or cached_at and stocks
    f_symbols,       \* the argument of the last call
    f_result,        \* what the last call returned
    f_calls,         \* calls made
    refetches,       \* rounds of requests to the supplier, each rewriting the file
    \* ---- one run of generate_html_report.main ----
    g_pc,            \* position in main
    g_quotes,        \* what fetch_quotes gives for each symbol: None or the close
    dividends,       \* cfg["dividends_received"]: name -> amount
    push_outcome,    \* whether git push and the WeChat request succeed
    g_i,             \* how many positions the loop has gone through
    rows, analyses,  \* the per-stock lists
    t_inv, t_val, t_pnl, t_sell, t_cpf, t_div,
    totals,          \* the totals dict
    g_events,        \* the outward steps taken, in order
    pages_url,       \* what push_github returned
    exit_code,       \* the status the process ends with
    \* ---- one call of analyze_portfolio_risk ----
    portfolio,       \* the argument: symbol, cost and shares of each position
    market,          \* the history the supplier holds for each symbol
    outcome,         \* what each fetch of each symbol does
    a_pc,            \* position in the function
    fetches,         \* how many requests have gone to the supplier
    inv_weights,     \* weights
    stock_risks, corr, port_vol, risk_level,
    portfolio_risk   \* the returned value

feeVars == <<q_impl, q_n, q_amount, q_fee, q_prev_amount, q_prev_fee>>

pricingVars == <<solver, cost, shares, p_pc, buy_amount, buy_fee, total_buy_cost,
                 target, iters, sell_amt, sell_fee, net, result>>

techVars == <<hist, weights, t_pc, ind, score, signal, snapshot>>

configVars == <<cache, file_reads>>

riskVars == <<r_entry, r_pc, supplied, r_hist, returns, vol, mdd, var, sharpe, sortino,
              stock_risk, confidence_levels, var_levels>>

portVars == <<portfolio, market, outcome, a_pc, fetches, inv_weights,
              stock_risks, corr, port_vol, risk_level, portfolio_risk>>

fundVars == <<now, cache_file, f_symbols, f_result, f_calls, refetches>>

tallyVars == <<t_inv, t_val, t_pnl, t_sell, t_cpf, t_div>>

reportVars == <<g_pc, g_quotes, dividends, push_outcome, g_i, rows, analyses, tallyVars,
                totals, g_events, pages_url, exit_code>>

vars == <<feeVars, pricingVars, techVars, configVars, riskVars, portVars, fundVars,
          reportVars>>

None == "None"

\* None where the other values are records
Absent == [kind |-> None]

-----------------------------------------------------------------------------
(* Integer helpers: rounding division that never leaves TLC's 32-bit range. *)

Abs(x) == IF x < 0 THEN -x ELSE x

Max(a, b) == IF a >= b THEN a ELSE b

Min(a, b) == IF a <= b THEN a ELSE b

Sign(x) == IF x < 0 THEN -1 ELSE IF x > 0 THEN 1 ELSE 0

RECURSIVE MulDivQR(_, _, _)
\* <<q, r>> with a*b = q*c + r and 0 <= r < c, for a, b >= 0 and c > 0,
\* by binary long multiplication: no intermediate exceeds 2*c + q.
MulDivQR(a, b, c) ==
    IF b = 0 THEN <<0, 0>>
    ELSE LET h  == MulDivQR(a, b \div 2, c)
             q2 == 2 * h[1] + (2 * h[2]) \div c
             r2 == (2 * h[2]) % c
         IN  IF b % 2 = 0 THEN <<q2, r2>>
             ELSE <<q2 + (a \div c) + (r2 + (a % c)) \div c, (r2 + (a % c)) % c>>

\* a*b/c rounded to the nearest integer (halves away from zero), c # 0.
RoundMulDiv(a, b, c) ==
    LET h == MulDivQR(Abs(a), Abs(b), Abs(c))
        q == h[1] + (IF 2 * h[2] >= Abs(c) THEN 1 ELSE 0)
    IN  Sign(a) * Sign(b) * Sign(c) * q

-----------------------------------------------------------------------------
(* Units and the standard fee schedule (DBS Vickers).                       *)

TicksPerDollar == 10^4

PartsPerMillion == 10^6

\* COMMISSION_RATE = 0.0018, in parts per million
CommissionRate == 1800

\* MIN_COMMISSION = 27.25, in ticks
MinCommission == 272500

\* CLEARING_FEE_RATE = 0.000325, in parts per million
ClearingFeeRate == 325

\* TRADING_FEE_RATE = 0.000075, in parts per million
TradingFeeRate == 75

\* SETTLEMENT_FEE = 0.35, in ticks
SettlementFee == 3500

\* amount * rate, as a float product rounded to the tick
MulRate(amount, rate) == RoundMulDiv(amount, rate, PartsPerMillion)

\* the fee with min in place of max: the floor becomes a cap
CalcTxFeeMin(amount) ==
    LET commission == Min(MulRate(amount, CommissionRate), MinCommission)
    IN  commission + MulRate(amount, ClearingFeeRate)
                   + MulRate(amount, TradingFeeRate) + SettlementFee

\* the fee without the commission floor
CalcTxFeeNoFloor(amount) ==
    MulRate(amount, CommissionRate) + MulRate(amount, ClearingFeeRate)
        + MulRate(amount, TradingFeeRate) + SettlementFee

\* lib.portfolio.calc_tx_fee and send_wechat_cpf.calc_tx_fee
CalcTxFee(amount) ==
    LET commission == Max(MulRate(amount, CommissionRate), MinCommission)
    IN  commission + MulRate(amount, ClearingFeeRate)
                   + MulRate(amount, TradingFeeRate) + SettlementFee

\* daily_portfolio_report.calculate_transaction_fee
CalculateTransactionFee(amount) ==
    LET commission     == Max(MulRate(amount, CommissionRate), MinCommission)
        clearing_fee   == MulRate(amount, ClearingFeeRate)
        trading_fee    == MulRate(amount, TradingFeeRate)
        settlement_fee == SettlementFee
    IN  commission + clearing_fee + trading_fee + settlement_fee

-----------------------------------------------------------------------------
(* The break-even solvers.                                                  *)

LibPortfolio == "lib.portfolio"

SendWechat == "send_wechat_cpf"

DailyReport == "daily_portfolio_report"

Solvers == {LibPortfolio, SendWechat, DailyReport}

\* range(20) in lib.portfolio and send_wechat_cpf
IterationBound == 20

\* range(10) in daily_portfolio_report
DailyIterationBound == 10

BoundOf(s) == IF s = DailyReport THEN DailyIterationBound ELSE IterationBound

\* the fee function each solver calls
FeeOf(s, amount) ==
    IF s = DailyReport THEN CalculateTransactionFee(amount) ELSE CalcTxFee(amount)

\* the proceeds with the sell-side fee left out
NetProceedsNoFee(s, amount) == amount

\* net = sell_amt - calc_tx_fee(sell_amt)
NetProceeds(s, amount) == amount - FeeOf(s, amount)

\* the factor inverted: target *= net / total_buy_cost
RescaleInverted(t, total, n) == RoundMulDiv(t, n, total)

\* target *= total_buy_cost / net
Rescale(t, total, n) == RoundMulDiv(t, total, n)

-----------------------------------------------------------------------------
(* Inputs of the pricing engine.                                            *)

\* one step of the grid of cost bases: 2.50 dollars
CostStep == 25 * 10^3

MaxCostSteps == 12

\* 54.59 (the DBS position), cost bases around the commission floor, 151.40
\* (just above the floor at 100 shares), and 2000 and 20000 dollars (the
\* latter above the floor at one share)
NamedCosts == {545900, 1000, 2800, 10000, 276111, 1514000, 20000000, 200000000}

Costs == NamedCosts \cup {k * CostStep : k \in 1..MaxCostSteps}

ShareCounts == {1, 100}

\* a notional the engine's tick arithmetic can hold
MaxNotional == 21 * 10^7

Inputs == {in \in Costs \X ShareCounts : in[1] <= MaxNotional \div in[2]}

PricingIdle ==
    /\ solver = None /\ cost = 0 /\ shares = 0 /\ p_pc = "idle"
    /\ buy_amount = 0 /\ buy_fee = 0 /\ total_buy_cost = 0
    /\ target = 0 /\ iters = 0 /\ sell_amt = 0 /\ sell_fee = 0 /\ net = 0
    /\ result = None

FeeIdle ==
    /\ q_impl = None /\ q_n = 0
    /\ q_amount = 0 /\ q_fee = 0 /\ q_prev_amount = 0 /\ q_prev_fee = 0

\* no override: every weight is its default
DefaultWeights == [k \in {} |-> 0]

TechIdle ==
    /\ hist = Absent /\ weights = DefaultWeights /\ t_pc = "idle" /\ ind = Absent
    /\ score = 0 /\ signal = None /\ snapshot = Absent

\* _cache = None, as the import of lib.config leaves it
ConfigIdle == cache = Absent /\ file_reads = 0

\* json.load(f): the parsed config.json
ConfigLoaded == [kind |-> "config"]

\* config.load(): the file is opened and _cache filled when _cache is None
Load ==
    /\ cache' = IF cache = Absent THEN ConfigLoaded ELSE cache
    /\ file_reads' = IF cache = Absent THEN file_reads + 1 ELSE file_reads

\* lib.portfolio.calc_tx_fee reads its rates from config.fees(); the other
\* two solvers read module constants
UsesConfig(s) == s = LibPortfolio

RiskIdle ==
    /\ r_entry = None /\ r_pc = "idle" /\ supplied = Absent /\ r_hist = Absent
    /\ returns = <<>> /\ vol = Absent /\ mdd = Absent /\ var = Absent
    /\ sharpe = Absent /\ sortino = Absent /\ stock_risk = Absent
    /\ confidence_levels = <<>> /\ var_levels = Absent

PortIdle ==
    /\ portfolio = <<>> /\ market = <<>> /\ outcome = <<>> /\ a_pc = "idle"
    /\ fetches = 0 /\ inv_weights = <<>> /\ stock_risks = <<>> /\ corr = Absent
    /\ port_vol = Absent /\ risk_level = None /\ portfolio_risk = Absent

FundIdle ==
    /\ now = 0 /\ cache_file = Absent /\ f_symbols = <<>> /\ f_result = Absent
    /\ f_calls = 0 /\ refetches = 0

ReportIdle ==
    /\ g_pc = "idle" /\ g_quotes = <<>> /\ dividends = <<>> /\ push_outcome = <<>>
    /\ g_i = 0 /\ rows = <<>> /\ analyses = <<>>
    /\ t_inv = 0 /\ t_val = 0 /\ t_pnl = 0 /\ t_sell = 0 /\ t_cpf = 0 /\ t_div = 0
    /\ totals = Absent /\ g_events = <<>> /\ pages_url = Absent /\ exit_code = None

-----------------------------------------------------------------------------
(* breakeven_price(cost, shares), one action per step of the function.      *)

PricingInit ==
    /\ solver \in Solvers
    /\ \E in \in Inputs : cost = in[1] /\ shares = in[2]
    /\ p_pc = "call"
    /\ buy_amount = 0 /\ buy_fee = 0 /\ total_buy_cost = 0
    /\ target = 0 /\ iters = 0 /\ sell_amt = 0 /\ sell_fee = 0 /\ net = 0
    /\ result = None
    /\ FeeIdle /\ TechIdle /\ ConfigIdle /\ RiskIdle /\ PortIdle /\ FundIdle /\ ReportIdle

\* buy_amount = cost * shares; total_buy_cost = ...; target = cost
Enter ==
    /\ p_pc = "call"
    /\ buy_amount' = cost * shares
    /\ buy_fee' = FeeOf(solver, buy_amount')
    /\ total_buy_cost' = buy_amount' + buy_fee'
    /\ target' = cost
    /\ iters' = 0
    /\ p_pc' = "loop"
    /\ IF UsesConfig(solver) THEN Load ELSE UNCHANGED configVars
    /\ UNCHANGED <<solver, cost, shares, sell_amt, sell_fee, net, result,
                   feeVars, techVars, riskVars, portVars,
                   fundVars, reportVars>>

\* for _ in range(N): sell_amt = target * shares; net = sell_amt - fee
Evaluate ==
    /\ p_pc = "loop"
    /\ iters < BoundOf(solver)
    /\ sell_amt' = target * shares
    /\ sell_fee' = FeeOf(solver, sell_amt')
    /\ net' = NetProceeds(solver, sell_amt')
    /\ p_pc' = "test"
    /\ IF UsesConfig(solver) THEN Load ELSE UNCHANGED configVars
    /\ UNCHANGED <<solver, cost, shares, buy_amount, buy_fee, total_buy_cost,
                   target, iters, result, feeVars, techVars, riskVars, portVars,
                   fundVars, reportVars>>

\* if net < total_buy_cost: target *= total_buy_cost / net
RescaleTarget ==
    /\ p_pc = "test"
    /\ net < total_buy_cost
    /\ net # 0
    /\ target' = Rescale(target, total_buy_cost, net)
    /\ iters' = iters + 1
    /\ p_pc' = "loop"
    /\ UNCHANGED <<solver, cost, shares, buy_amount, buy_fee, total_buy_cost,
                   sell_amt, sell_fee, net, result, feeVars, techVars,
                   configVars, riskVars, portVars,
                   fundVars, reportVars>>

\* total_buy_cost / net with net == 0.0 raises ZeroDivisionError
ZeroDivision ==
    /\ p_pc = "test"
    /\ net < total_buy_cost
    /\ net = 0
    /\ p_pc' = "raised"
    /\ UNCHANGED <<solver, cost, shares, buy_amount, buy_fee, total_buy_cost,
                   target, iters, sell_amt, sell_fee, net, result, feeVars, techVars,
                   configVars, riskVars, portVars,
                   fundVars, reportVars>>

\* else: break
Break ==
    /\ p_pc = "test"
    /\ net >= total_buy_cost
    /\ p_pc' = "return"
    /\ UNCHANGED <<solver, cost, shares, buy_amount, buy_fee, total_buy_cost,
                   target, iters, sell_amt, sell_fee, net, result, feeVars, techVars,
                   configVars, riskVars, portVars,
                   fundVars, reportVars>>

\* the range is exhausted
Exhaust ==
    /\ p_pc = "loop"
    /\ iters = BoundOf(solver)
    /\ p_pc' = "return"
    /\ UNCHANGED <<solver, cost, shares, buy_amount, buy_fee, total_buy_cost,
                   target, iters, sell_amt, sell_fee, net, result, feeVars, techVars,
                   configVars, riskVars, portVars,
                   fundVars, reportVars>>

\* return target
Return ==
    /\ p_pc = "return"
    /\ result' = target
    /\ p_pc' = "done"
    /\ UNCHANGED <<solver, cost, shares, buy_amount, buy_fee, total_buy_cost,
                   target, iters, sell_amt, sell_fee, net, feeVars, techVars,
                   configVars, riskVars, portVars,
                   fundVars, reportVars>>

PricingNext ==
    \/ Enter
    \/ Evaluate
    \/ RescaleTarget
    \/ ZeroDivision
    \/ Break
    \/ Exhaust
    \/ Return

SpecPricing == PricingInit /\ [][PricingNext]_vars

-----------------------------------------------------------------------------
(* Successive fee quotes: calc_tx_fee applied to one amount after another.  *)

\* one step of the grid of amounts: 1000 dollars
AmountStep == 10^7

MaxAmountSteps == 20

\* the first amount whose commission reaches the floor (15138.8889)
KinkAmount == MulDivQR(MinCommission, PartsPerMillion, CommissionRate)[1] + 1

KinkSpan == 3

Amounts ==
    {k * AmountStep : k \in 0..MaxAmountSteps}
        \cup {KinkAmount + d : d \in (0 - KinkSpan)..KinkSpan}

FeeInit == FeeIdle /\ PricingIdle /\ TechIdle /\ ConfigIdle /\ RiskIdle /\ PortIdle /\ FundIdle /\ ReportIdle

\* fee = calc_tx_fee(a); the quote before it is kept
Quote(s, a) ==
    /\ q_impl' = s
    /\ q_n' = Min(q_n + 1, 2)
    /\ q_prev_amount' = q_amount
    /\ q_prev_fee' = q_fee
    /\ q_amount' = a
    /\ q_fee' = FeeOf(s, a)
    /\ IF UsesConfig(s) THEN Load ELSE UNCHANGED configVars
    /\ UNCHANGED <<pricingVars, techVars, riskVars, portVars,
                   fundVars, reportVars>>

FeeNext == \E s \in Solvers, a \in Amounts : Quote(s, a)

SpecFee == FeeInit /\ [][FeeNext]_vars

-----------------------------------------------------------------------------
(* lib/technicals.py.  Closes are integers in cents and volumes integers;   *)
(* every indicator is an integer in units of 1/IndScale (of a cent, of an   *)
(* RSI point, of a percent), each float division rounded to that unit.     *)

IndScale == 10^3

RoundDiv(a, c) == RoundMulDiv(a, 1, c)

\* a*b where the product is held, and Saturation beyond it
Saturation == 10^9

SatMul(a, b) == IF a = 0 THEN 0 ELSE IF b > Saturation \div a THEN Saturation ELSE a * b

RECURSIVE SumOver(_, _, _)
\* xs[lo] + ... + xs[hi], by halves
SumOver(xs, lo, hi) ==
    IF lo > hi THEN 0
    ELSE IF lo = hi THEN xs[lo]
    ELSE SumOver(xs, lo, (lo + hi) \div 2) + SumOver(xs, (lo + hi) \div 2 + 1, hi)

\* series.rolling(window).mean() at the last bar
CalcMa(series, window) ==
    LET n == Len(series)
    IN  RoundDiv(SumOver(series, n - window + 1, n) * IndScale, window)

\* delta = series.diff(): undefined (NaN) at the first bar
DeltaAt(series, i) == series[i] - series[i - 1]

\* delta.where(delta > 0, 0.0)
GainAt(series, i) ==
    IF i >= 2 /\ DeltaAt(series, i) > 0 THEN DeltaAt(series, i) ELSE 0

\* -delta.where(delta < 0, 0.0)
LossAt(series, i) ==
    IF i >= 2 /\ DeltaAt(series, i) < 0 THEN 0 - DeltaAt(series, i) ELSE 0

\* loss.replace(0, 1e-10): 1e-10 dollars is 1/LossFloorInv of a cent
LossFloorInv == 100000000

\* RSI with the losses left negative (the sign inversion forgotten);
\* 1 + rs = 0 gives -inf, held as -Saturation
CalcRsiSignedLoss(series, period) ==
    LET n == Len(series)
        G == SumOver([i \in 1..n |-> GainAt(series, i)], n - period + 1, n)
        L == 0 - SumOver([i \in 1..n |-> LossAt(series, i)], n - period + 1, n)
        num == IF L = 0 THEN SatMul(G, LossFloorInv) ELSE G
        den == IF L = 0 THEN period ELSE L
    IN  IF den + num = 0 THEN 0 - Saturation
        ELSE 100 * IndScale - RoundMulDiv(100 * IndScale, den, den + num)

\* calc_rsi at the last bar: rs = gain / loss, 100 - 100 / (1 + rs), where
\* gain = G/period and loss = L/period or the floor; rs = num/den
CalcRsi(series, period) ==
    LET n == Len(series)
        G == SumOver([i \in 1..n |-> GainAt(series, i)], n - period + 1, n)
        L == SumOver([i \in 1..n |-> LossAt(series, i)], n - period + 1, n)
        num == IF L = 0 THEN SatMul(G, LossFloorInv) ELSE G
        den == IF L = 0 THEN period ELSE L
    IN  100 * IndScale - RoundMulDiv(100 * IndScale, den, den + num)

RECURSIVE EwmMean(_, _, _)
\* xs.ewm(span, adjust=False).mean() up to bar k: y1 = x1,
\* y_t = (1 - a) y_(t-1) + a x_t with a = 2 / (span + 1)
EwmMean(xs, span, k) ==
    IF k = 1 THEN <<xs[1]>>
    ELSE LET prev == EwmMean(xs, span, k - 1)
         IN  Append(prev, RoundDiv((span - 1) * prev[k - 1] + 2 * xs[k], span + 1))

\* calc_macd(series, fast=12, slow=26, signal=9)
CalcMacd(series) ==
    LET n        == Len(series)
        scaled   == [i \in 1..n |-> series[i] * IndScale]
        ema_fast == EwmMean(scaled, 12, n)
        ema_slow == EwmMean(scaled, 26, n)
        dif      == [i \in 1..n |-> ema_fast[i] - ema_slow[i]]
        dea      == EwmMean(dif, 9, n)
    IN  [dif |-> dif, dea |-> dea,
         histogram |-> [i \in 1..n |-> dif[i] - dea[i]]]

RECURSIVE FindCrossFrom(_, _, _, _)
\* the loop of _find_cross from iteration i on
FindCrossFrom(fast_series, slow_series, lookback, i) ==
    LET n == Len(fast_series)
    IN  IF i >= Min(lookback + 1, n) \/ i + 1 > n THEN <<None, None>>
        ELSE LET f_now  == fast_series[n - i + 1]
                 f_prev == fast_series[n - i]
                 s_now  == slow_series[n - i + 1]
                 s_prev == slow_series[n - i]
             IN  IF f_prev <= s_prev /\ f_now > s_now THEN <<"golden", i - 1>>
                 ELSE IF f_prev >= s_prev /\ f_now < s_now THEN <<"death", i - 1>>
                 ELSE FindCrossFrom(fast_series, slow_series, lookback, i + 1)

\* the loop with the earlier bar compared strictly on both sides
FindCrossStrict(fast_series, slow_series) ==
    LET n == Len(fast_series)
        hit(i) == \/ (fast_series[n - i] < slow_series[n - i]
                        /\ fast_series[n - i + 1] > slow_series[n - i + 1])
                  \/ (fast_series[n - i] > slow_series[n - i]
                        /\ fast_series[n - i + 1] < slow_series[n - i + 1])
        hits == {i \in 1..(Min(6, n) - 1) : hit(i)}
    IN  IF hits = {} THEN <<None, None>>
        ELSE LET i == CHOOSE j \in hits : \A k \in hits : j <= k
             IN  <<IF fast_series[n - i + 1] > slow_series[n - i + 1]
                   THEN "golden" ELSE "death", i - 1>>

\* _find_cross(fast_series, slow_series, lookback=5)
FindCross(fast_series, slow_series) == FindCrossFrom(fast_series, slow_series, 5, 1)

RECURSIVE SqrtSearch(_, _, _)
\* the largest r in lo..hi with r*r <= v
SqrtSearch(v, lo, hi) ==
    IF lo >= hi THEN lo
    ELSE LET mid == (lo + hi + 1) \div 2
         IN  IF mid * mid <= v THEN SqrtSearch(v, mid, hi) ELSE SqrtSearch(v, lo, mid - 1)

ISqrt(v) == SqrtSearch(v, 0, 46340)

\* calc_bollinger(series, window=20, num_std=2) at the last bar; the rolling
\* std is the sample deviation (ddof = 1)
CalcBollinger(series) ==
    LET n   == Len(series)
        S   == SumOver(series, n - 19, n)
        E   == SumOver([i \in 1..n |-> (20 * series[i] - S) * (20 * series[i] - S)],
                       n - 19, n)
        mid == RoundDiv(S * IndScale, 20)
        std == ISqrt(RoundMulDiv(E, IndScale * IndScale, 400 * 19))
    IN  [upper |-> mid + 2 * std, mid |-> mid, lower |-> mid - 2 * std]

\* w.get(key, default)
Get(w, key, default) == IF key \in DOMAIN w THEN w[key] ELSE default

\* len(hist) < 26
MinBars == 26

\* the guard with the bound inclusive: len(hist) <= 26
InsufficientInclusive(h) == IF h = Absent THEN TRUE ELSE Len(h.close) <= MinBars

\* hist is None or len(hist) < 26
Insufficient(h) == IF h = Absent THEN TRUE ELSE Len(h.close) < MinBars

\* lines 60-109 of analyze: every indicator the score reads
Indicators(h) ==
    LET close    == h.close
        volume   == h.volume
        n        == Len(close)
        latest   == close[n] * IndScale
        ma5_val  == CalcMa(close, 5)
        ma10_val == CalcMa(close, 10)
        ma20_val == CalcMa(close, 20)
        ma_trend == IF ma5_val > ma10_val /\ ma10_val > ma20_val THEN "bull"
                    ELSE IF ma5_val < ma10_val /\ ma10_val < ma20_val THEN "bear"
                    ELSE "mixed"
        macd     == CalcMacd(close)
        cross    == FindCross(macd.dif, macd.dea)
        bb       == CalcBollinger(close)
        bb_width == bb.upper - bb.lower
        vol_today == volume[n]
        vol_sum   == SumOver(volume, n - 4, n)
    IN  [kind |-> "indicators",
         ma5 |-> ma5_val, ma10 |-> ma10_val, ma20 |-> ma20_val,
         ma_trend |-> ma_trend,
         rsi6 |-> CalcRsi(close, 6), rsi14 |-> CalcRsi(close, 14),
         dif |-> macd.dif[n], dea |-> macd.dea[n], macd_hist |-> macd.histogram[n],
         macd_cross |-> cross[1], macd_cross_days |-> cross[2],
         bb_upper |-> bb.upper, bb_mid |-> bb.mid, bb_lower |-> bb.lower,
         bb_position |-> IF bb_width > 0
                         THEN RoundMulDiv(latest - bb.lower, 100 * IndScale, bb_width)
                         ELSE 50 * IndScale,
         vol_ratio |-> IF vol_sum > 0
                       THEN RoundMulDiv(5 * vol_today, IndScale, vol_sum)
                       ELSE IndScale,
         up_day |-> close[n] > close[n - 1]]

\* lines 113-140 of analyze: the score before it is clamped
RawScore(i, w) ==
    50
    + (IF i.rsi14 > 60 * IndScale THEN Get(w, "rsi_strong", 5)
       ELSE IF i.rsi14 < 40 * IndScale THEN Get(w, "rsi_weak", -5)
       ELSE 0)
    + (IF i.macd_cross = "golden" THEN Get(w, "macd_golden", 15)
       ELSE IF i.macd_cross = "death" THEN Get(w, "macd_death", -15)
       ELSE IF i.macd_hist > 0 THEN 5
       ELSE -5)
    + (IF i.ma_trend = "bull" THEN Get(w, "ma_bull", 15)
       ELSE IF i.ma_trend = "bear" THEN Get(w, "ma_bear", -15)
       ELSE 0)
    + (IF i.bb_position > 95 * IndScale THEN Get(w, "bb_upper", -5)
       ELSE IF i.bb_position < 5 * IndScale THEN Get(w, "bb_lower", 5)
       ELSE 0)
    + (IF 2 * i.vol_ratio > 3 * IndScale /\ i.up_day THEN Get(w, "volume_up", 10)
       ELSE 0)

\* the score left as computed (no clamp)
NoClamp(sc) == sc

\* score = max(0, min(100, score))
Clamp(sc) == Max(0, Min(100, sc))

\* the label with the bullish threshold exclusive
SignalOfExclusive(sc) ==
    IF sc > 70 THEN "bullish" ELSE IF sc >= 50 THEN "neutral" ELSE "bearish"

\* lines 144-152: "bullish" is the hold-and-wait label, "neutral" the
\* watch label, "bearish" the caution label
SignalOf(sc) ==
    IF sc >= 70 THEN "bullish" ELSE IF sc >= 50 THEN "neutral" ELSE "bearish"

-----------------------------------------------------------------------------
(* Inputs of technicals.analyze: a head of bars on a steady slope and a     *)
(* tail of free moves, a volume shape, and a set of configured weights.     *)

MaxBars == 27

TailLen == 3

MaxSlope == 3

MaxJump == 8

BaseClose == 5000

BaseVolume == 1000

Lengths == {0} \cup ((MinBars - 1)..MaxBars)

Slopes == {0 - MaxSlope, 0, MaxSlope}

Jumps == {0 - MaxJump, 0, MaxJump}

RECURSIVE CloseAt(_, _, _, _)
CloseAt(n, slope, tail, i) ==
    LET h == IF n >= TailLen THEN n - TailLen ELSE n
    IN  IF i <= h THEN BaseClose + slope * (i - 1)
        ELSE IF i = 1 THEN BaseClose + tail[1]
        ELSE CloseAt(n, slope, tail, i - 1) + tail[i - h]

VolumeShapes == {"flat", "spike", "zero"}

VolumeAt(n, shape, i) ==
    IF shape = "zero" THEN 0
    ELSE IF shape = "spike" /\ i = n THEN 2 * BaseVolume
    ELSE BaseVolume

MakeHist(n, slope, tail, shape) ==
    [kind   |-> "frame",
     close  |-> [i \in 1..n |-> CloseAt(n, slope, tail, i)],
     volume |-> [i \in 1..n |-> VolumeAt(n, shape, i)]]

Histories ==
    {Absent} \cup {MakeHist(n, sl, tl, sh) :
                    n \in Lengths, sl \in Slopes,
                    tl \in [1..TailLen -> Jumps], sh \in VolumeShapes}

WeightKeys ==
    {"rsi_strong", "rsi_weak", "macd_golden", "macd_death", "ma_bull", "ma_bear",
     "bb_upper", "bb_lower", "volume_up"}

Heavy == 40

\* every weight overridden and large
HeavyWeights ==
    [k \in WeightKeys |->
        IF k \in {"rsi_weak", "macd_death", "ma_bear", "bb_upper"} THEN 0 - Heavy ELSE Heavy]

\* two weights overridden
SomeWeights == [k \in {"rsi_strong", "volume_up"} |-> IF k = "volume_up" THEN 0 ELSE 20]

WeightConfigs == {DefaultWeights, HeavyWeights, SomeWeights}

-----------------------------------------------------------------------------
(* analyze(hist), one action per step of the function.                      *)

TechInit ==
    /\ hist \in Histories
    /\ weights \in WeightConfigs
    /\ t_pc = "call"
    /\ ind = Absent /\ score = 0 /\ signal = None /\ snapshot = Absent
    /\ FeeIdle /\ PricingIdle /\ ConfigIdle /\ RiskIdle /\ PortIdle /\ FundIdle /\ ReportIdle

\* if hist is None or len(hist) < 26: return None
ReturnNone ==
    /\ t_pc = "call"
    /\ Insufficient(hist)
    /\ snapshot' = Absent
    /\ t_pc' = "done"
    /\ UNCHANGED <<hist, weights, ind, score, signal, feeVars, pricingVars,
                   configVars, riskVars, portVars,
                   fundVars, reportVars>>

\* lines 60-109: the indicators
ComputeIndicators ==
    /\ t_pc = "call"
    /\ ~Insufficient(hist)
    /\ ind' = Indicators(hist)
    /\ t_pc' = "score"
    /\ UNCHANGED <<hist, weights, score, signal, snapshot, feeVars, pricingVars,
                   configVars, riskVars, portVars,
                   fundVars, reportVars>>

\* lines 112-140: the weighted adjustments
ComputeScore ==
    /\ t_pc = "score"
    /\ score' = RawScore(ind, weights)
    /\ t_pc' = "clamp"
    /\ Load
    /\ UNCHANGED <<hist, weights, ind, signal, snapshot, feeVars, pricingVars,
                   riskVars, portVars,
                   fundVars, reportVars>>

\* line 142
ClampScore ==
    /\ t_pc = "clamp"
    /\ score' = Clamp(score)
    /\ t_pc' = "signal"
    /\ UNCHANGED <<hist, weights, ind, signal, snapshot, feeVars, pricingVars,
                   configVars, riskVars, portVars,
                   fundVars, reportVars>>

\* lines 144-152
ChooseSignal ==
    /\ t_pc = "signal"
    /\ signal' = SignalOf(score)
    /\ t_pc' = "return"
    /\ UNCHANGED <<hist, weights, ind, score, snapshot, feeVars, pricingVars,
                   configVars, riskVars, portVars,
                   fundVars, reportVars>>

\* lines 154-164
ReturnSnapshot ==
    /\ t_pc = "return"
    /\ snapshot' = [kind |-> "snapshot", indicators |-> ind,
                    score |-> score, signal |-> signal]
    /\ t_pc' = "done"
    /\ UNCHANGED <<hist, weights, ind, score, signal, feeVars, pricingVars,
                   configVars, riskVars, portVars,
                   fundVars, reportVars>>

TechNext ==
    \/ ReturnNone
    \/ ComputeIndicators
    \/ ComputeScore
    \/ ClampScore
    \/ ChooseSignal
    \/ ReturnSnapshot

SpecTech == TechInit /\ [][TechNext]_vars

-----------------------------------------------------------------------------
(* lib/risk.py.  Closes are integers in cents.  A daily return is an        *)
(* integer in units of 1/RetScale; a deviation or a percentile is held in   *)
(* millionths, a percentage with two decimals in units of 0.01 percent and  *)
(* a ratio in thousandths, each where the code rounds to that many places.  *)

RetScale == 10^5

\* TRADING_DAYS_PER_YEAR = 252
TradingDaysPerYear == 252

\* RISK_FREE_RATE = 0.032, in thousandths
RiskFreeRate == 32

\* a float that is present, where None is Absent
Some(x) == [kind |-> "float", v |-> x]

\* np.sqrt: the root rounded to the nearest integer
SqrtNearest(x) == LET r == ISqrt(x) IN IF x - r * r > r THEN r + 1 ELSE r

\* np.sqrt(TRADING_DAYS_PER_YEAR) = 15.874508, in millionths
SqrtDays == 15874508

\* np.log(a / b) in units of 1/RetScale: 2 atanh z = 2z + 2z^3/3 with
\* z = (a - b)/(a + b) held in millionths (the next term is below 1e-7
\* for a daily move under 10 percent)
LogRatio(a, b) ==
    LET z    == RoundMulDiv(a - b, 10^6, a + b)
        cube == RoundMulDiv(RoundMulDiv(z, z, 10^6), z, 10^6)
    IN  RoundDiv(2 * z + RoundDiv(2 * cube, 3), 10^6 \div RetScale)

\* a series with every value computed, once
Series(xs) == xs \o <<>>

\* calc_daily_returns, on the close column without gaps
CalcDailyReturns(close) ==
    IF Len(close) < 2 THEN <<>>
    ELSE Series([i \in 1..(Len(close) - 1) |-> LogRatio(close[i + 1], close[i])])

\* the sum of two quotient-remainder pairs over the divisor c
AddQR(p, h, c) == <<p[1] + h[1] + (p[2] + h[2]) \div c, (p[2] + h[2]) % c>>

RECURSIVE SumSqQR(_, _, _, _)
\* <<q, r>> with ts[lo]^2 + ... + ts[hi]^2 = q*c + r and 0 <= r < c, by halves
SumSqQR(ts, lo, hi, c) ==
    IF lo > hi THEN <<0, 0>>
    ELSE IF lo = hi THEN MulDivQR(Abs(ts[lo]), Abs(ts[lo]), c)
    ELSE AddQR(SumSqQR(ts, lo, (lo + hi) \div 2, c),
               SumSqQR(ts, (lo + hi) \div 2 + 1, hi, c), c)

\* the sample variance (ddof = 1) of xs, in units of (unit/scale)^2:
\* sum of (n x - S)^2 scale^2 over n^2 (n - 1), rounded
Variance(xs, scale) ==
    LET n   == Len(xs)
        S   == SumOver(xs, 1, n)
        c   == n * n * (n - 1)
        acc == SumSqQR(Series([i \in 1..n |-> (n * xs[i] - S) * scale]), 1, n, c)
    IN  acc[1] + (IF 2 * acc[2] >= c THEN 1 ELSE 0)

\* series.std() of a series of returns, in millionths
Std(xs) == SqrtNearest(Variance(xs, 10^6 \div RetScale))

\* the dict calc_volatility returns: daily_vol in percent with 4 decimals
\* (millionths), annual_vol in percent with 2 decimals
Volatility(d, a) == [kind |-> "volatility", daily_vol |-> d, annual_vol |-> a]

\* the minimum one short: len(returns) < 4
CalcVolatilityShort(rets) ==
    IF Len(rets) < 4 THEN Volatility(Absent, Absent)
    ELSE Volatility(Some(Std(rets)), Some(RoundMulDiv(Std(rets), SqrtDays, 10^8)))

\* calc_volatility(returns)
CalcVolatility(rets) ==
    IF Len(rets) < 5 THEN Volatility(Absent, Absent)
    ELSE LET daily_vol == Std(rets)
         IN  Volatility(Some(daily_vol), Some(RoundMulDiv(daily_vol, SqrtDays, 10^8)))

\* close.cummax() at row i
CumMax(close, i) == CHOOSE m \in {close[j] : j \in 1..i} : \A j \in 1..i : close[j] <= m

\* drawdown[i] < drawdown[j], by cross-multiplication
DrawdownLess(close, i, j) ==
    (close[i] - CumMax(close, i)) * CumMax(close, j)
        < (close[j] - CumMax(close, j)) * CumMax(close, i)

\* drawdown.idxmin(): the first row of the most negative drawdown
TroughIdx(close) ==
    CHOOSE i \in 1..Len(close) :
        /\ \A j \in 1..(i - 1) : DrawdownLess(close, i, j)
        /\ \A j \in (i + 1)..Len(close) : ~DrawdownLess(close, j, i)

\* close.idxmax(): the first row of the highest close of all
PeakIdxGlobal(close) ==
    CHOOSE i \in 1..Len(close) :
        /\ \A j \in 1..(i - 1) : close[j] < close[i]
        /\ \A j \in (i + 1)..Len(close) : close[j] <= close[i]

\* close.loc[:trough_idx].idxmax(): the first row of the highest close
\* at or before the trough
PeakIdx(close) ==
    LET t == TroughIdx(close)
    IN  CHOOSE i \in 1..t :
            /\ \A j \in 1..(i - 1) : close[j] < close[i]
            /\ \A j \in (i + 1)..t : close[j] <= close[i]

\* the dict calc_max_drawdown returns; a date is the number of its session
MaxDrawdown(m, p, t) ==
    [kind |-> "drawdown", max_drawdown |-> m, peak_date |-> p, trough_date |-> t]

\* calc_max_drawdown(hist)
CalcMaxDrawdown(h) ==
    IF Len(h.close) < 2 THEN MaxDrawdown(Absent, Absent, Absent)
    ELSE LET close == h.close
             t     == TroughIdx(close)
         IN  MaxDrawdown(Some(RoundMulDiv(close[t] - CumMax(close, t), 10^4,
                                          CumMax(close, t))),
                         Some(h.first + PeakIdx(close) - 1),
                         Some(h.first + t - 1))

\* the place of xs[i] in ascending order, equal values in order of position
Rank(xs, i) ==
    Cardinality({j \in 1..Len(xs) : xs[j] < xs[i] \/ (xs[j] = xs[i] /\ j < i)}) + 1

\* the values in ascending order
SortAscending(xs) ==
    Series([k \in 1..Len(xs) |-> xs[CHOOSE i \in 1..Len(xs) : Rank(xs, i) = k]])

\* float(np.percentile(returns, q)) * 100 rounded to 4 decimals (millionths):
\* linear interpolation between the order statistics around q (n - 1) / 100
Percentile(xs, q) ==
    LET n      == Len(xs)
        sorted == SortAscending(xs)
        lo     == (q * (n - 1)) \div 100
        rem    == (q * (n - 1)) % 100
        a      == sorted[lo + 1]
        b      == IF lo + 2 <= n THEN sorted[lo + 2] ELSE a
    IN  RoundDiv((10^6 \div RetScale) * (100 * a + rem * (b - a)), 100)

\* the dict calc_var returns for the default confidence levels
ValueAtRisk(v95, v99) == [kind |-> "var", var_95 |-> v95, var_99 |-> v99]

\* the percentile taken at cl instead of alpha = 1 - cl
CalcVarUpperTail(rets) ==
    IF Len(rets) < 10 THEN ValueAtRisk(Absent, Absent)
    ELSE ValueAtRisk(Some(Percentile(rets, 95)), Some(Percentile(rets, 99)))

\* calc_var(returns), confidence_levels = [0.95, 0.99]
CalcVar(rets) ==
    IF Len(rets) < 10 THEN ValueAtRisk(Absent, Absent)
    ELSE ValueAtRisk(Some(Percentile(rets, 100 - 95)), Some(Percentile(rets, 100 - 99)))

\* the largest and the smallest member of a set of numbers
MaxOf(S) == CHOOSE x \in S : \A y \in S : y <= x

MinOf(S) == CHOOSE x \in S : \A y \in S : x <= y

\* np.percentile(returns, alpha * 100) for alpha = 1 - cl, cl in thousandths,
\* times 100 and rounded to 4 decimals as in Percentile
PercentileBelow(xs, cl) ==
    LET n      == Len(xs)
        sorted == SortAscending(xs)
        lo     == ((10^3 - cl) * (n - 1)) \div 10^3
        rem    == ((10^3 - cl) * (n - 1)) % 10^3
        a      == sorted[lo + 1]
        b      == IF lo + 2 <= n THEN sorted[lo + 2] ELSE a
    IN  RoundDiv((10^6 \div RetScale) * (10^3 * a + rem * (b - a)), 10^3)

\* int(cl * 100), the number in the key f"var_{int(cl*100)}"
VarKey(cl) == cl \div 10

\* the keys of the dict built from the levels
VarKeys(levels) == {VarKey(levels[i]) : i \in 1..Len(levels)}

\* the place of the last level that writes key k
LastWriter(levels, k) == MaxOf({i \in 1..Len(levels) : VarKey(levels[i]) = k})

\* calc_var(returns, confidence_levels): a dict from key to value, an entry
\* written again under the same key replacing the earlier one
CalcVarLevels(rets, levels) ==
    IF Len(rets) < 10 THEN [k \in VarKeys(levels) |-> Absent]
    ELSE [k \in VarKeys(levels) |->
             Some(PercentileBelow(rets, levels[LastWriter(levels, k)]))]

\* mean_excess = (returns - daily_rf).mean(), in units of 1/(1000 RetScale),
\* where daily_rf = RISK_FREE_RATE / TRADING_DAYS_PER_YEAR
MeanExcess(rets) ==
    LET n == Len(rets)
        S == SumOver(rets, 1, n)
    IN  RoundMulDiv(TradingDaysPerYear * S - n * RiskFreeRate * (RetScale \div 1000),
                    1000, TradingDaysPerYear * n)

\* (mean / std) * np.sqrt(TRADING_DAYS_PER_YEAR) rounded to 3 decimals
Annualized(mean, std) == RoundDiv(RoundMulDiv(mean, SqrtDays, 10^5), std)

\* calc_sharpe_ratio(returns)
CalcSharpeRatio(rets) ==
    IF Len(rets) < 20 THEN Absent
    ELSE LET std_excess == Std(rets)
         IN  IF std_excess = 0 THEN Absent
             ELSE Some(Annualized(MeanExcess(rets), std_excess))

\* returns < daily_rf
BelowRiskFree(r) == TradingDaysPerYear * r < RiskFreeRate * (RetScale \div 1000)

\* the downside taken from the returns above the risk-free rate
CalcSortinoRatioUpside(rets) ==
    IF Len(rets) < 20 THEN Absent
    ELSE LET downside == SelectSeq(rets, LAMBDA r : ~BelowRiskFree(r))
         IN  IF Len(downside) < 2 THEN Absent
             ELSE IF Std(downside) = 0 THEN Absent
             ELSE Some(Annualized(MeanExcess(rets), Std(downside)))

\* calc_sortino_ratio(returns)
CalcSortinoRatio(rets) ==
    IF Len(rets) < 20 THEN Absent
    ELSE LET downside == SelectSeq(rets, BelowRiskFree)
         IN  IF Len(downside) < 2 THEN Absent
             ELSE IF Std(downside) = 0 THEN Absent
             ELSE Some(Annualized(MeanExcess(rets), Std(downside)))

\* the dict analyze_stock_risk returns
StockRisk(v, m, x, sh, so, n) ==
    [kind |-> "risk",
     daily_vol |-> v.daily_vol, annual_vol |-> v.annual_vol,
     max_drawdown |-> m.max_drawdown, peak_date |-> m.peak_date,
     trough_date |-> m.trough_date,
     var_95 |-> x.var_95, var_99 |-> x.var_99,
     sharpe_ratio |-> sh, sortino_ratio |-> so, data_points |-> n]

\* len(hist) < 20
MinRows == 20

-----------------------------------------------------------------------------
(* Inputs of the risk engine: histories whose closes follow a shape scaled  *)
(* by an amplitude, and return series given directly to the calc_*         *)
(* functions.                                                               *)

\* yf.Ticker(symbol).history(period) raises
Failure == [kind |-> "raise"]

\* "dip" is a rise with a setback every fourth session
Shapes == {"flat", "zig", "zag", "saw", "rise", "fall", "dip"}

ShapeAt(shape, i) ==
    IF shape = "zig" THEN i % 2
    ELSE IF shape = "zag" THEN 1 - (i % 2)
    ELSE IF shape = "saw" THEN Min(i % 3, 1)
    ELSE IF shape = "rise" THEN i \div 2
    ELSE IF shape = "fall" THEN 0 - (i \div 2)
    ELSE IF shape = "dip" THEN (i \div 2) - (IF i % 4 = 3 THEN 2 ELSE 0)
    ELSE 0

\* one step of amplitude: 30 cents on a close of 50 dollars
AmpStep == 30

MaxAmp == 3

Amps == {k * AmpStep : k \in 1..MaxAmp}

\* a history of n sessions, the first of them session `first`
Frame(first, n, shape, amp) ==
    [kind |-> "frame", first |-> first,
     close |-> [i \in 1..n |-> BaseClose + amp * ShapeAt(shape, i)]]

\* rows of a history around the 20 rows analyze_stock_risk asks for
StockRows == {0, MinRows - 1, MinRows, MinRows + 1, MinRows + 2}

StockFrames == {Frame(1, n, sh, a) : n \in StockRows, sh \in Shapes, a \in Amps}

\* rows of a history around the 2 closes calc_max_drawdown asks for
DirectFrames == {Frame(1, n, "saw", AmpStep) : n \in 0..3}

\* lengths of a return series around the minimum of each function
ReturnLengths == {0, 1, 4, 5, 9, 10, 19, 20, 25}

ReturnShapes == {"rising", "level", "swing"}

MaxStart == 14

Starts == {0, MaxStart - 1, MaxStart}

\* a return series: rising by one unit a day from `start`, level at
\* `start`, or swinging around it ever wider
ReturnAt(shape, start, i) ==
    IF shape = "rising" THEN start + i
    ELSE IF shape = "swing" THEN start + (IF i % 2 = 0 THEN i ELSE 0 - 2 * i)
    ELSE start

ReturnInputs ==
    {[i \in 1..n |-> ReturnAt(sh, st, i)] :
        n \in ReturnLengths, sh \in ReturnShapes, st \in Starts}

\* the confidence levels of a call: the default ones, a single one, and two
\* levels between 0.99 and 1
LevelLists == {<<950, 990>>, <<990>>, <<991, 995>>}

AnalyzeStockRisk == "analyze_stock_risk"

Direct == "calc_*"

-----------------------------------------------------------------------------
(* analyze_stock_risk(symbol), and the calc_* functions called one after    *)
(* another on a return series and a history, one action per step.           *)

RiskInit ==
    /\ r_entry \in {AnalyzeStockRisk, Direct}
    /\ r_pc = "call"
    /\ IF r_entry = AnalyzeStockRisk
       THEN /\ supplied \in StockFrames \cup {Absent, Failure}
            /\ r_hist = Absent /\ returns = <<>>
            /\ confidence_levels = <<>>
       ELSE /\ supplied = Absent
            /\ r_hist \in DirectFrames /\ returns \in ReturnInputs
            /\ confidence_levels \in LevelLists
    /\ var_levels = Absent
    /\ vol = Absent /\ mdd = Absent /\ var = Absent
    /\ sharpe = Absent /\ sortino = Absent /\ stock_risk = Absent
    /\ FeeIdle /\ PricingIdle /\ TechIdle /\ ConfigIdle /\ PortIdle /\ FundIdle /\ ReportIdle

\* hist = yf.Ticker(symbol).history(period=period)
FetchHistory ==
    /\ r_entry = AnalyzeStockRisk /\ r_pc = "call"
    /\ supplied # Failure
    /\ r_hist' = supplied
    /\ r_pc' = "guard"
    /\ UNCHANGED <<r_entry, confidence_levels, var_levels, supplied, returns, vol, mdd, var, sharpe, sortino,
                   stock_risk,
                   feeVars, pricingVars, techVars, configVars, portVars,
                   fundVars, reportVars>>

\* except Exception: return None
FetchRaises ==
    /\ r_entry = AnalyzeStockRisk /\ r_pc = "call"
    /\ supplied = Failure
    /\ stock_risk' = Absent
    /\ r_pc' = "done"
    /\ UNCHANGED <<r_entry, confidence_levels, var_levels, supplied, r_hist, returns, vol, mdd, var, sharpe,
                   sortino,
                   feeVars, pricingVars, techVars, configVars, portVars,
                   fundVars, reportVars>>

\* the guard with the bound inclusive: len(hist) <= 20
TooFewRowsInclusive(h) == IF h = Absent THEN TRUE ELSE Len(h.close) <= MinRows

\* hist is None or len(hist) < 20
TooFewRows(h) == IF h = Absent THEN TRUE ELSE Len(h.close) < MinRows

\* if hist is None or len(hist) < 20: return None
StockInsufficient ==
    /\ r_pc = "guard"
    /\ TooFewRows(r_hist)
    /\ stock_risk' = Absent
    /\ r_pc' = "done"
    /\ UNCHANGED <<r_entry, confidence_levels, var_levels, supplied, r_hist, returns, vol, mdd, var, sharpe,
                   sortino,
                   feeVars, pricingVars, techVars, configVars, portVars,
                   fundVars, reportVars>>

\* returns = calc_daily_returns(hist)
StockReturns ==
    /\ r_pc = "guard"
    /\ ~TooFewRows(r_hist)
    /\ returns' = CalcDailyReturns(r_hist.close)
    /\ r_pc' = "vol"
    /\ UNCHANGED <<r_entry, confidence_levels, var_levels, supplied, r_hist, vol, mdd, var, sharpe, sortino,
                   stock_risk,
                   feeVars, pricingVars, techVars, configVars, portVars,
                   fundVars, reportVars>>

\* a caller hands its return series and its history to the calc_* functions
DirectCall ==
    /\ r_entry = Direct /\ r_pc = "call"
    /\ r_pc' = "vol"
    /\ UNCHANGED <<r_entry, confidence_levels, var_levels, supplied, r_hist, returns, vol, mdd, var, sharpe,
                   sortino, stock_risk,
                   feeVars, pricingVars, techVars, configVars, portVars,
                   fundVars, reportVars>>

\* vol = calc_volatility(returns)
StockVolatility ==
    /\ r_pc = "vol"
    /\ vol' = CalcVolatility(returns)
    /\ r_pc' = "mdd"
    /\ UNCHANGED <<r_entry, confidence_levels, var_levels, supplied, r_hist, returns, mdd, var, sharpe, sortino,
                   stock_risk,
                   feeVars, pricingVars, techVars, configVars, portVars,
                   fundVars, reportVars>>

\* mdd = calc_max_drawdown(hist)
StockMaxDrawdown ==
    /\ r_pc = "mdd"
    /\ mdd' = CalcMaxDrawdown(r_hist)
    /\ r_pc' = "var"
    /\ UNCHANGED <<r_entry, confidence_levels, var_levels, supplied, r_hist, returns, vol, var, sharpe, sortino,
                   stock_risk,
                   feeVars, pricingVars, techVars, configVars, portVars,
                   fundVars, reportVars>>

\* var = calc_var(returns)
StockVar ==
    /\ r_pc = "var"
    /\ var' = CalcVar(returns)
    /\ r_pc' = "sharpe"
    /\ UNCHANGED <<r_entry, confidence_levels, var_levels, supplied, r_hist, returns, vol, mdd, sharpe, sortino,
                   stock_risk,
                   feeVars, pricingVars, techVars, configVars, portVars,
                   fundVars, reportVars>>

\* sharpe = calc_sharpe_ratio(returns)
StockSharpe ==
    /\ r_pc = "sharpe"
    /\ sharpe' = CalcSharpeRatio(returns)
    /\ r_pc' = "sortino"
    /\ UNCHANGED <<r_entry, confidence_levels, var_levels, supplied, r_hist, returns, vol, mdd, var, sortino,
                   stock_risk,
                   feeVars, pricingVars, techVars, configVars, portVars,
                   fundVars, reportVars>>

\* sortino = calc_sortino_ratio(returns)
StockSortino ==
    /\ r_pc = "sortino"
    /\ sortino' = CalcSortinoRatio(returns)
    /\ r_pc' = IF r_entry = AnalyzeStockRisk THEN "return" ELSE "levels"
    /\ UNCHANGED <<r_entry, confidence_levels, var_levels, supplied, r_hist, returns, vol, mdd, var, sharpe,
                   stock_risk,
                   feeVars, pricingVars, techVars, configVars, portVars,
                   fundVars, reportVars>>

\* return {**vol, **mdd, **var, "sharpe_ratio": ..., "data_points": ...}
StockReturn ==
    /\ r_pc = "return"
    /\ stock_risk' = StockRisk(vol, mdd, var, sharpe, sortino, Len(returns))
    /\ r_pc' = "done"
    /\ UNCHANGED <<r_entry, confidence_levels, var_levels, supplied, r_hist, returns, vol, mdd, var, sharpe,
                   sortino,
                   feeVars, pricingVars, techVars, configVars, portVars,
                   fundVars, reportVars>>

\* calc_var(returns, confidence_levels) with the levels given
VarAtLevels ==
    /\ r_entry = Direct /\ r_pc = "levels"
    /\ var_levels' = CalcVarLevels(returns, confidence_levels)
    /\ r_pc' = "done"
    /\ UNCHANGED <<r_entry, confidence_levels, supplied, r_hist, returns, vol, mdd,
                   var, sharpe, sortino, stock_risk,
                   feeVars, pricingVars, techVars, configVars, portVars,
                   fundVars, reportVars>>

RiskNext ==
    \/ FetchHistory
    \/ FetchRaises
    \/ StockInsufficient
    \/ StockReturns
    \/ DirectCall
    \/ StockVolatility
    \/ StockMaxDrawdown
    \/ StockVar
    \/ StockSharpe
    \/ StockSortino
    \/ StockReturn
    \/ VarAtLevels

SpecRisk == RiskInit /\ [][RiskNext]_vars

-----------------------------------------------------------------------------
(* Portfolio-level risk.  An annualized volatility is held in units of      *)
(* 1/RetScale (0.001 percent) until it is rounded to two decimals of a      *)
(* percent, an annualized covariance in the square of that unit, a weight   *)
(* in millionths and a correlation in ten-thousandths.                      *)

\* a float that is not a number
NaN == [kind |-> "nan"]

\* analyze_stock_risk(symbol) as analyze_portfolio_risk calls it, on what
\* its fetch gave
AnalyzeStockRiskOf(fetched) ==
    IF fetched = Failure THEN Absent
    ELSE IF TooFewRows(fetched) THEN Absent
    ELSE LET rets == CalcDailyReturns(fetched.close)
         IN  StockRisk(CalcVolatility(rets), CalcMaxDrawdown(fetched), CalcVar(rets),
                       CalcSharpeRatio(rets), CalcSortinoRatio(rets), Len(rets))

\* hist is not None and len(hist) > 10, the fetch not having raised
Usable(fetched) ==
    IF fetched = Failure \/ fetched = Absent THEN FALSE ELSE Len(fetched.close) > 10

\* the sessions of calc_daily_returns(hist): all but the first
FirstReturn(h) == h.first + 1

LastReturn(h) == h.first + Len(h.close) - 1

\* pd.DataFrame(all_returns).dropna(): one column per history of hs, in
\* order, on the sessions every one of them has
AlignedReturns(hs) ==
    LET lo == MaxOf({FirstReturn(hs[i]) : i \in 1..Len(hs)})
        hi == MinOf({LastReturn(hs[i]) : i \in 1..Len(hs)})
    IN  Series([i \in 1..Len(hs) |->
            LET rets == CalcDailyReturns(hs[i].close)
            IN  Series([k \in 1..Max(0, hi - lo + 1) |-> rets[lo + k - 1 - hs[i].first]])])

RECURSIVE SumProdQR(_, _, _, _, _, _)
\* <<q, r>> with the sum over lo..hi of the products as[k]*bs[k] of the
\* given sign equal to sign*(q*c + r), 0 <= r < c, by halves
SumProdQR(as, bs, lo, hi, c, sign) ==
    IF lo > hi THEN <<0, 0>>
    ELSE IF lo = hi
    THEN (IF Sign(as[lo]) * Sign(bs[lo]) = sign
          THEN MulDivQR(Abs(as[lo]), Abs(bs[lo]), c) ELSE <<0, 0>>)
    ELSE AddQR(SumProdQR(as, bs, lo, (lo + hi) \div 2, c, sign),
               SumProdQR(as, bs, (lo + hi) \div 2 + 1, hi, c, sign), c)

\* (df.cov() * TRADING_DAYS_PER_YEAR) at columns x, y: the sample covariance
\* sum of (n x - Sx)(n y - Sy) over n^2 (n - 1), times 252, rounded
AnnualCov(x, y) ==
    LET n   == Len(x)
        Sx  == SumOver(x, 1, n)
        Sy  == SumOver(y, 1, n)
        c   == n * n * (n - 1)
        as  == Series([k \in 1..n |-> n * x[k] - Sx])
        bs  == Series([k \in 1..n |-> (n * y[k] - Sy) * TradingDaysPerYear])
        pos == SumProdQR(as, bs, 1, n, c, 1)
        neg == SumProdQR(as, bs, 1, n, c, -1)
    IN  (pos[1] - neg[1]) + RoundDiv(pos[2] - neg[2], c)

\* df.std() * np.sqrt(TRADING_DAYS_PER_YEAR) with the factor left out
IndividualVolDaily(x) == RoundDiv(Std(x), 10^6 \div RetScale)

\* df.std() * np.sqrt(TRADING_DAYS_PER_YEAR) at column x
IndividualVol(x) == RoundMulDiv(Std(x), SqrtDays, 10^6 * (10^6 \div RetScale))

\* w @ cov_matrix.values @ w
PortVariance(w, cols) ==
    LET m == Len(cols)
        t == Series([j \in 1..m |->
                SumOver([i \in 1..m |-> RoundMulDiv(w[i], AnnualCov(cols[i], cols[j]),
                                                    10^6)], 1, m)])
    IN  SumOver([j \in 1..m |-> RoundMulDiv(t[j], w[j], 10^6)], 1, m)

\* round(x * 100, 2) of a volatility
Percent(x) == RoundDiv(x, RetScale \div 10^4)

\* the benefit left as a fraction: round(diversification_benefit, 2)
DiversificationBenefitFraction(undiversified_vol, root) ==
    RoundDiv(undiversified_vol - root, RetScale \div 100)

\* round(diversification_benefit * 100, 2), the benefit being
\* undiversified_vol - port_vol before any rounding
DiversificationBenefit(undiversified_vol, root) == Percent(undiversified_vol - root)

\* the dict calc_portfolio_volatility returns
PortfolioVolatility(pv, uv, db) ==
    [kind |-> "portfolio_vol", portfolio_annual_vol |-> pv,
     undiversified_vol |-> uv, diversification_benefit |-> db]

\* the figures with the weights taken in the reverse order of the columns
VolatilityFiguresReversed(w, cols) ==
    LET v == [i \in 1..Len(w) |-> w[Len(w) + 1 - i]]
        port_variance     == PortVariance(v, cols)
        undiversified_vol ==
            SumOver([i \in 1..Len(cols) |->
                        RoundMulDiv(v[i], IndividualVol(cols[i]), 10^6)], 1, Len(cols))
    IN  IF port_variance < 0
        THEN PortfolioVolatility(NaN, Some(Percent(undiversified_vol)), NaN)
        ELSE LET root == SqrtNearest(port_variance)
             IN  PortfolioVolatility(Some(Percent(root)),
                                     Some(Percent(undiversified_vol)),
                                     Some(DiversificationBenefit(undiversified_vol, root)))

\* lines 199-213 of calc_portfolio_volatility, on the aligned columns; the
\* root of a negative variance is not a number
VolatilityFigures(w, cols) ==
    LET port_variance     == PortVariance(w, cols)
        undiversified_vol ==
            SumOver([i \in 1..Len(cols) |->
                        RoundMulDiv(w[i], IndividualVol(cols[i]), 10^6)], 1, Len(cols))
    IN  IF port_variance < 0
        THEN PortfolioVolatility(NaN, Some(Percent(undiversified_vol)), NaN)
        ELSE LET root == SqrtNearest(port_variance)
             IN  PortfolioVolatility(Some(Percent(root)),
                                     Some(Percent(undiversified_vol)),
                                     Some(DiversificationBenefit(undiversified_vol, root)))

\* the entries of a sequence at the positions of idx, in order
RECURSIVE Pick(_, _)
Pick(xs, idx) ==
    IF idx = <<>> THEN <<>> ELSE <<xs[Head(idx)]>> \o Pick(xs, Tail(idx))

RECURSIVE UsablePositions(_, _)
\* the positions of fetched whose history is usable, from i on, in order
UsablePositions(fetched, i) ==
    IF i > Len(fetched) THEN <<>>
    ELSE (IF Usable(fetched[i]) THEN <<i>> ELSE <<>>) \o UsablePositions(fetched, i + 1)

\* calc_portfolio_volatility(symbols, weights) on what its fetches gave;
\* all_returns is keyed by symbol
CalcPortfolioVolatility(symbols, w, fetched) ==
    LET used == UsablePositions(fetched, 1)
    IN  IF Cardinality({symbols[used[k]] : k \in 1..Len(used)}) # Len(symbols)
        THEN Absent
        ELSE LET cols == AlignedReturns(Pick(fetched, used))
             IN  IF Len(cols[1]) < 10 THEN Absent
                 ELSE VolatilityFigures(w, cols)

\* df.corr() at columns x, y, rounded to 4 decimals: Pearson's coefficient,
\* not a number when a column does not vary
Correlation(x, y) ==
    LET n  == Len(x)
        Sx == SumOver(x, 1, n)
        Sy == SumOver(y, 1, n)
        A  == n * SumOver([k \in 1..n |-> x[k] * x[k]], 1, n) - Sx * Sx
        B  == n * SumOver([k \in 1..n |-> y[k] * y[k]], 1, n) - Sy * Sy
        N  == n * SumOver([k \in 1..n |-> x[k] * y[k]], 1, n) - Sx * Sy
    IN  IF A = 0 \/ B = 0 THEN NaN
        ELSE Some(Max(0 - 10^4, Min(10^4,
                  RoundMulDiv(N, 10^4, SqrtNearest(A) * SqrtNearest(B)))))

\* calc_correlation_matrix(symbols) on what its fetches gave
CalcCorrelationMatrix(symbols, fetched) ==
    LET used  == UsablePositions(fetched, 1)
        names == {symbols[used[k]] : k \in 1..Len(used)}
    IN  IF Cardinality(names) < 2 THEN Absent
        ELSE LET cols == AlignedReturns(Pick(fetched, used))
             IN  IF Len(cols[1]) < 10 THEN Absent
                 ELSE [kind |-> "corr",
                       m |-> [i \in 1..Len(used), j \in 1..Len(used) |->
                                 Correlation(cols[i], cols[j])]]

\* the rating with every boundary counted to the lower tier
RiskLevelInclusive(pvol) ==
    IF pvol = Absent THEN None
    ELSE LET pv == pvol.portfolio_annual_vol
         IN  IF pv = NaN THEN "high"
             ELSE IF pv.v <= 10 * 100 THEN "low"
             ELSE IF pv.v <= 20 * 100 THEN "moderate"
             ELSE IF pv.v <= 30 * 100 THEN "elevated"
             ELSE "high"

\* lines 290-305 of analyze_portfolio_risk: "low" is the low-risk label,
\* "moderate" the medium one, "elevated" the higher one, "high" the high one;
\* a comparison with a float that is not a number is false
RiskLevel(pvol) ==
    IF pvol = Absent THEN None
    ELSE LET pv == pvol.portfolio_annual_vol
         IN  IF pv = NaN THEN "high"
             ELSE IF pv.v < 10 * 100 THEN "low"
             ELSE IF pv.v < 20 * 100 THEN "moderate"
             ELSE IF pv.v < 30 * 100 THEN "elevated"
             ELSE "high"

-----------------------------------------------------------------------------
(* Inputs of analyze_portfolio_risk: two positions, the history the         *)
(* supplier holds for each symbol, and what each of the three fetches of    *)
(* each symbol does.                                                        *)

Symbols == <<"D05.SI", "O39.SI">>

Position(sym, c, n) == [symbol |-> sym, cost |-> c, shares |-> n]

\* equal investments, and nine tenths in the first symbol
Portfolios ==
    {<<Position(Symbols[1], 50, 100), Position(Symbols[2], 50, 100)>>,
     <<Position(Symbols[1], 60, 300), Position(Symbols[2], 20, 100)>>}

\* first session and rows of the second symbol's history: as long as the
\* first symbol's, one and two rows shorter, and starting two sessions late
Spans == {<<1, 12>>, <<1, 11>>, <<1, 10>>, <<3, 12>>}

\* histories of 12 rows or so, too short for analyze_stock_risk
ShortMarkets ==
    {[sym \in {Symbols[1], Symbols[2]} |->
         IF sym = Symbols[1] THEN Frame(1, 12, sh1, a1)
         ELSE Frame(sp[1], sp[2], sh2, a2)] :
       sh1 \in {"zig", "saw"}, a1 \in Amps,
       sp \in Spans, sh2 \in {"zig", "zag", "saw", "rise"}, a2 \in Amps}

\* histories long enough for analyze_stock_risk, and the second one of them
\* a row short of it
LongMarkets ==
    {[sym \in {Symbols[1], Symbols[2]} |->
         IF sym = Symbols[1] THEN Frame(1, MinRows + 1, sh1, a1)
         ELSE Frame(1, n2, "zag", a1)] :
       sh1 \in {"zig", "saw"}, a1 \in Amps, n2 \in {MinRows - 1, MinRows + 1}}

Markets == ShortMarkets \cup LongMarkets

\* the fetches: line 224 (per symbol), line 155 (correlation), line 185
\* (portfolio volatility)
Sites == {"stock", "corr", "vol"}

AllOk == [f \in Sites \X {Symbols[1], Symbols[2]} |-> "ok"]

\* every fetch succeeds, or one of them raises or returns None
Outcomes ==
    {AllOk,
     [AllOk EXCEPT ![<<"vol", Symbols[2]>>] = "raise"],
     [AllOk EXCEPT ![<<"stock", Symbols[1]>>] = "none"],
     [AllOk EXCEPT ![<<"corr", Symbols[1]>>] = "raise"]}

\* what yf.Ticker(sym).history(period) gives at a fetch
Fetched(site, sym) ==
    IF outcome[<<site, sym>>] = "raise" THEN Failure
    ELSE IF outcome[<<site, sym>>] = "none" THEN Absent
    ELSE market[sym]

\* symbols = [s["symbol"] for s in portfolio]
SymbolsOf(pf) == [i \in 1..Len(pf) |-> pf[i].symbol]

\* investments[s["symbol"]] = s["cost"] * s["shares"]: the last position of
\* a symbol is the one kept
Investment(pf, sym) ==
    LET last == MaxOf({i \in 1..Len(pf) : pf[i].symbol = sym})
    IN  pf[last].cost * pf[last].shares

RECURSIVE SumInvestments(_, _)
SumInvestments(pf, syms) ==
    IF syms = {} THEN 0
    ELSE LET x == CHOOSE y \in syms : TRUE
         IN  Investment(pf, x) + SumInvestments(pf, syms \ {x})

\* total_inv = sum(investments.values())
TotalInvestment(pf) == SumInvestments(pf, {pf[i].symbol : i \in 1..Len(pf)})

\* weights = [investments[sym] / total_inv for sym in symbols]
WeightsOf(pf) ==
    [i \in 1..Len(pf) |->
        RoundMulDiv(Investment(pf, pf[i].symbol), 10^6, TotalInvestment(pf))]

\* risk["name"], risk["weight"] = ... when the risk is not None
WithWeight(risk, w) ==
    IF risk = Absent THEN Absent
    ELSE [f \in DOMAIN risk \cup {"weight"} |-> IF f = "weight" THEN w ELSE risk[f]]

-----------------------------------------------------------------------------
(* analyze_portfolio_risk(portfolio), one action per step.                  *)

PortInit ==
    /\ portfolio \in Portfolios
    /\ market \in Markets
    /\ outcome \in Outcomes
    /\ a_pc = "call"
    /\ fetches = 0 /\ inv_weights = <<>> /\ stock_risks = <<>> /\ corr = Absent
    /\ port_vol = Absent /\ risk_level = None /\ portfolio_risk = Absent
    /\ FeeIdle /\ PricingIdle /\ TechIdle /\ ConfigIdle /\ RiskIdle /\ FundIdle /\ ReportIdle

\* lines 261-269: the weights by invested value
PortWeights ==
    /\ a_pc = "call"
    /\ inv_weights' = WeightsOf(portfolio)
    /\ a_pc' = "stocks"
    /\ UNCHANGED <<portfolio, market, outcome, fetches, stock_risks, corr, port_vol,
                   risk_level, portfolio_risk,
                   feeVars, pricingVars, techVars, configVars, riskVars,
                   fundVars, reportVars>>

\* lines 273-279: one turn of the loop over the symbols
PortStockRisk ==
    /\ a_pc = "stocks"
    /\ Len(stock_risks) < Len(portfolio)
    /\ LET i   == Len(stock_risks) + 1
           sym == portfolio[i].symbol
       IN  stock_risks' =
               Append(stock_risks,
                      WithWeight(AnalyzeStockRiskOf(Fetched("stock", sym)),
                                 RoundDiv(inv_weights[i], 100)))
    /\ fetches' = fetches + 1
    /\ UNCHANGED <<portfolio, market, outcome, a_pc, inv_weights, corr, port_vol,
                   risk_level, portfolio_risk,
                   feeVars, pricingVars, techVars, configVars, riskVars,
                   fundVars, reportVars>>

\* line 283: corr = calc_correlation_matrix(symbols, period)
PortCorrelation ==
    /\ a_pc = "stocks"
    /\ Len(stock_risks) = Len(portfolio)
    /\ LET symbols == SymbolsOf(portfolio)
       IN  corr' = CalcCorrelationMatrix(symbols,
                       [i \in 1..Len(symbols) |-> Fetched("corr", symbols[i])])
    /\ fetches' = fetches + Len(portfolio)
    /\ a_pc' = "volatility"
    /\ UNCHANGED <<portfolio, market, outcome, inv_weights, stock_risks, port_vol,
                   risk_level, portfolio_risk,
                   feeVars, pricingVars, techVars, configVars, riskVars,
                   fundVars, reportVars>>

\* line 287: port_vol = calc_portfolio_volatility(symbols, weights, period)
PortVolatility ==
    /\ a_pc = "volatility"
    /\ LET symbols == SymbolsOf(portfolio)
       IN  port_vol' = CalcPortfolioVolatility(symbols, inv_weights,
                           [i \in 1..Len(symbols) |-> Fetched("vol", symbols[i])])
    /\ fetches' = fetches + Len(portfolio)
    /\ a_pc' = "rating"
    /\ UNCHANGED <<portfolio, market, outcome, inv_weights, stock_risks, corr,
                   risk_level, portfolio_risk,
                   feeVars, pricingVars, techVars, configVars, riskVars,
                   fundVars, reportVars>>

\* lines 290-305: the risk rating
PortRating ==
    /\ a_pc = "rating"
    /\ risk_level' = RiskLevel(port_vol)
    /\ a_pc' = "return"
    /\ UNCHANGED <<portfolio, market, outcome, fetches, inv_weights, stock_risks,
                   corr, port_vol, portfolio_risk,
                   feeVars, pricingVars, techVars, configVars, riskVars,
                   fundVars, reportVars>>

\* lines 307-314
PortReturn ==
    /\ a_pc = "return"
    /\ portfolio_risk' =
           [kind |-> "portfolio_risk", stock_risks |-> stock_risks,
            correlation |-> corr, portfolio_vol |-> port_vol,
            risk_level |-> risk_level,
            weights |-> [i \in 1..Len(inv_weights) |-> RoundDiv(inv_weights[i], 100)]]
    /\ a_pc' = "done"
    /\ UNCHANGED <<portfolio, market, outcome, fetches, inv_weights, stock_risks,
                   corr, port_vol, risk_level,
                   feeVars, pricingVars, techVars, configVars, riskVars,
                   fundVars, reportVars>>

PortNext ==
    \/ PortWeights
    \/ PortStockRisk
    \/ PortCorrelation
    \/ PortVolatility
    \/ PortRating
    \/ PortReturn

SpecPort == PortInit /\ [][PortNext]_vars

-----------------------------------------------------------------------------
(* lib/fundamentals.py: the cache file of fetch_fundamentals.  The clock     *)
(* counts ticks, TicksPerDay of them to the day, so that timedelta.days      *)
(* rounds down as it does in the source.                                     *)

TicksPerDay == 2

MaxDays == 8

MaxClock == MaxDays * TicksPerDay

MaxCalls == 3

\* _CACHE_MAX_AGE_DAYS
CacheMaxAgeDays == 7

\* the symbol lists main can pass: the symbols of the configured positions
FundSymbolLists == {<<"D05.SI">>, <<"D05.SI", "C38U.SI">>}

FundSymbols == {"D05.SI", "C38U.SI"}

Requested(symbols) == {symbols[i] : i \in 1..Len(symbols)}

\* what the loop of fetch_fundamentals stores for one symbol at time t: the
\* record built from yf.Ticker(sym).info, or None when the request raised
FetchInfo(sym, t, ok) ==
    IF ok[sym] THEN [kind |-> "info", symbol |-> sym, as_of |-> t] ELSE Absent

\* (datetime.now() - cached_at).days
AgeDays(cached_at, t) == (t - cached_at) \div TicksPerDay

\* _load_cache with the bound included
LoadCacheInclusive(file, t) ==
    IF file = Absent THEN Absent
    ELSE IF AgeDays(file.cached_at, t) <= CacheMaxAgeDays THEN file.stocks
    ELSE Absent

\* _load_cache: the stocks of the file when it is younger than the bound
LoadCache(file, t) ==
    IF file = Absent THEN Absent
    ELSE IF AgeDays(file.cached_at, t) < CacheMaxAgeDays THEN file.stocks
    ELSE Absent

\* `cached and all(s in cached for s in symbols)`
CacheServes(cached, symbols) ==
    IF cached = Absent THEN FALSE
    ELSE /\ DOMAIN cached # {}
         /\ \A i \in 1..Len(symbols) : symbols[i] \in DOMAIN cached

\* fetch_fundamentals(symbols), with ok telling which requests succeed
FetchFundamentals(symbols, ok) ==
    LET cached == LoadCache(cache_file, now)
        fetched == [sym \in Requested(symbols) |-> FetchInfo(sym, now, ok)]
    IN  /\ f_symbols' = symbols
        /\ f_calls' = f_calls + 1
        /\ IF CacheServes(cached, symbols)
           THEN /\ f_result' = cached
                /\ UNCHANGED <<cache_file, refetches>>
           ELSE /\ cache_file' = [cached_at |-> now, stocks |-> fetched]
                /\ refetches' = refetches + 1
                /\ f_result' = fetched

\* a run of the report calls fetch_fundamentals
CallFetchFundamentals ==
    /\ f_calls < MaxCalls
    /\ \E symbols \in FundSymbolLists, ok \in [FundSymbols -> BOOLEAN] :
           FetchFundamentals(symbols, ok)
    /\ UNCHANGED <<now, feeVars, pricingVars, techVars, configVars, riskVars, portVars,
                   reportVars>>

\* time passes between runs
Tick ==
    /\ now < MaxClock
    /\ now' = now + 1
    /\ UNCHANGED <<cache_file, f_symbols, f_result, f_calls, refetches,
                   feeVars, pricingVars, techVars, configVars, riskVars, portVars,
                   reportVars>>

FundInit ==
    /\ FundIdle
    /\ FeeIdle /\ PricingIdle /\ TechIdle /\ ConfigIdle /\ RiskIdle /\ PortIdle /\ ReportIdle

FundNext == CallFetchFundamentals \/ Tick

SpecFund == FundInit /\ [][FundNext]_vars

-----------------------------------------------------------------------------
(* generate_html_report.main: one run of the report, from config.load() to  *)
(* the WeChat push.  Rendering (build_html, build_markdown) and the fields   *)
(* of rows that only feed it are left out.                                   *)

QuoteStep == 500

\* cfg["portfolio"], with holding_days(buy_date) of the day of the run
ConfiguredPortfolio ==
    << [symbol |-> "D05.SI", name |-> "DBS", cost |-> 545900, shares |-> 100,
        days |-> 370],
       [symbol |-> "C38U.SI", name |-> "CapitaLand", cost |-> 24500, shares |-> 1900,
        days |-> 370] >>

\* cfg["dividends_received"]: absent, for one name, for both names
DividendConfigs ==
    { [n \in {} |-> 0],
      [n \in {"DBS"} |-> 75 * TicksPerDollar],
      [n \in {"DBS", "CapitaLand"} |-> IF n = "DBS" THEN 75 * TicksPerDollar
                                       ELSE 57 * TicksPerDollar] }

\* fetch_quotes(sym): None, or a quote whose close is a step off the cost
QuoteChoices(stock) ==
    {Absent, Some(stock.cost - QuoteStep), Some(stock.cost + QuoteStep)}

\* cfg["cpf_oa_rate"], parts per million
CpfOaRate == 35000

\* cfg["github_pages_url"]
PagesUrl == [kind |-> "url"]

\* lib.portfolio.cpf_opportunity_cost
CpfOpportunityCost(investment, days) ==
    RoundMulDiv(investment, CpfOaRate * days, PartsPerMillion * 365)

RECURSIVE SumValues(_)
\* sum(dividends.values())
SumValues(d) ==
    IF DOMAIN d = {} THEN 0
    ELSE LET k == CHOOSE x \in DOMAIN d : TRUE
         IN  d[k] + SumValues([x \in DOMAIN d \ {k} |-> d[x]])

\* dividends.get(name, 0)
DividendOf(d, name) == IF name \in DOMAIN d THEN d[name] ELSE 0

\* the analysis dict of one stock whose quote has the close `close`
Analysis(stock, close, d) ==
    LET investment   == stock.cost * stock.shares
        current_val  == close * stock.shares
        paper_profit == current_val - investment
        fee_out      == CalcTxFee(current_val)
        cpf_cost     == CpfOpportunityCost(investment, stock.days)
        div_recv     == DividendOf(d, stock.name)
    IN  [name |-> stock.name, investment |-> investment,
         buy_fee |-> CalcTxFee(investment), current_value |-> current_val,
         paper_profit |-> paper_profit, sell_fee |-> fee_out,
         holding_days |-> stock.days, cpf_cost |-> cpf_cost,
         net_profit |-> paper_profit - fee_out - cpf_cost + div_recv]

\* main up to the loop: config.load(), fetch_fundamentals(symbols), the sums
ReportStart ==
    /\ g_pc = "start"
    /\ Load
    /\ \E ok \in [FundSymbols -> BOOLEAN] :
           FetchFundamentals([i \in 1..Len(ConfiguredPortfolio) |->
                                  ConfiguredPortfolio[i].symbol], ok)
    /\ t_div' = SumValues(dividends)
    /\ g_pc' = "loop"
    /\ UNCHANGED <<now, g_quotes, dividends, push_outcome, g_i, rows, analyses,
                   t_inv, t_val, t_pnl, t_sell, t_cpf, totals, g_events, pages_url,
                   exit_code, feeVars, pricingVars, techVars, riskVars, portVars>>

\* one turn of the loop for a stock whose fetch_quotes gave None: `continue`
StockSkipped ==
    /\ g_pc = "loop" /\ g_i < Len(ConfiguredPortfolio)
    /\ g_quotes[ConfiguredPortfolio[g_i + 1].symbol] = Absent
    /\ g_i' = g_i + 1
    /\ UNCHANGED <<g_pc, g_quotes, dividends, push_outcome, rows, analyses, tallyVars,
                   totals, g_events, pages_url, exit_code, feeVars, pricingVars,
                   techVars, configVars, riskVars, portVars, fundVars>>

\* one turn of the loop for a stock with a quote
StockAnalysed ==
    /\ g_pc = "loop" /\ g_i < Len(ConfiguredPortfolio)
    /\ LET stock == ConfiguredPortfolio[g_i + 1]
           quote == g_quotes[stock.symbol]
       IN  /\ quote # Absent
           /\ LET a == Analysis(stock, quote.v, dividends)
              IN  /\ rows' = Append(rows, [symbol |-> stock.symbol, name |-> stock.name,
                                           shares |-> stock.shares, cost |-> stock.cost,
                                           close |-> quote.v, weight |-> 0])
                  /\ analyses' = Append(analyses, a)
                  /\ t_inv' = t_inv + a.investment
                  /\ t_val' = t_val + a.current_value
                  /\ t_pnl' = t_pnl + a.paper_profit
                  /\ t_sell' = t_sell + a.sell_fee
                  /\ t_cpf' = t_cpf + a.cpf_cost
    /\ g_i' = g_i + 1
    /\ UNCHANGED <<g_pc, g_quotes, dividends, push_outcome, t_div, totals, g_events,
                   pages_url, exit_code, feeVars, pricingVars, techVars, configVars,
                   riskVars, portVars, fundVars>>

\* `if not rows: sys.exit(1)`
NoRows ==
    /\ g_pc = "loop" /\ g_i = Len(ConfiguredPortfolio)
    /\ rows = <<>>
    /\ g_pc' = "exit"
    /\ exit_code' = 1
    /\ UNCHANGED <<g_quotes, dividends, push_outcome, g_i, rows, analyses, tallyVars,
                   totals, g_events, pages_url, feeVars, pricingVars, techVars,
                   configVars, riskVars, portVars, fundVars>>

\* the weights of the rows and the totals dict
ComputeTotals ==
    /\ g_pc = "loop" /\ g_i = Len(ConfiguredPortfolio)
    /\ rows # <<>>
    /\ rows' = [i \in 1..Len(rows) |->
                   [rows[i] EXCEPT !.weight =
                        RoundMulDiv(rows[i].cost * rows[i].shares, PartsPerMillion, t_inv)]]
    /\ totals' = [investment |-> t_inv, current_value |-> t_val, paper_profit |-> t_pnl,
                  sell_fee |-> t_sell, cpf_cost |-> t_cpf, dividends |-> t_div,
                  net_profit |-> t_pnl - t_sell - t_cpf + t_div]
    /\ g_pc' = "write"
    /\ UNCHANGED <<g_quotes, dividends, push_outcome, g_i, analyses, tallyVars, g_events,
                   pages_url, exit_code, feeVars, pricingVars, techVars, configVars,
                   riskVars, portVars, fundVars>>

\* html_path.write_text(html)
WriteReport ==
    /\ g_pc = "write"
    /\ g_events' = Append(g_events, "report.html written")
    /\ g_pc' = "github"
    /\ UNCHANGED <<g_quotes, dividends, push_outcome, g_i, rows, analyses, tallyVars,
                   totals, pages_url, exit_code, feeVars, pricingVars, techVars,
                   configVars, riskVars, portVars, fundVars>>

\* push_github when git add, commit and push succeed
PushGithubOk ==
    /\ g_pc = "github" /\ push_outcome.github = "ok"
    /\ g_events' = Append(g_events, "github pushed")
    /\ pages_url' = PagesUrl
    /\ g_pc' = "wechat"
    /\ UNCHANGED <<g_quotes, dividends, push_outcome, g_i, rows, analyses, tallyVars,
                   totals, exit_code, feeVars, pricingVars, techVars, configVars,
                   riskVars, portVars, fundVars>>

\* push_github letting the exception of a failed git command through
PushGithubRaises ==
    /\ g_pc = "github" /\ push_outcome.github = "fail"
    /\ g_events' = Append(g_events, "github failed")
    /\ g_pc' = "exit"
    /\ exit_code' = 1
    /\ UNCHANGED <<g_quotes, dividends, push_outcome, g_i, rows, analyses, tallyVars,
                   totals, pages_url, feeVars, pricingVars, techVars, configVars,
                   riskVars, portVars, fundVars>>

\* push_github when a git command fails: the exception is printed and
\* pages_url returned all the same
PushGithubFails ==
    /\ g_pc = "github" /\ push_outcome.github = "fail"
    /\ g_events' = Append(g_events, "github failed")
    /\ pages_url' = PagesUrl
    /\ g_pc' = "wechat"
    /\ UNCHANGED <<g_quotes, dividends, push_outcome, g_i, rows, analyses, tallyVars,
                   totals, exit_code, feeVars, pricingVars, techVars, configVars,
                   riskVars, portVars, fundVars>>

\* push_wechat when the request succeeds: main returns
PushWechatOk ==
    /\ g_pc = "wechat" /\ push_outcome.wechat = "ok"
    /\ g_events' = Append(g_events, "wechat pushed")
    /\ g_pc' = "done"
    /\ exit_code' = 0
    /\ UNCHANGED <<g_quotes, dividends, push_outcome, g_i, rows, analyses, tallyVars,
                   totals, pages_url, feeVars, pricingVars, techVars, configVars,
                   riskVars, portVars, fundVars>>

\* push_wechat when the request fails: raise_for_status raises, and the
\* `except` around main() exits with status 1
PushWechatFails ==
    /\ g_pc = "wechat" /\ push_outcome.wechat = "fail"
    /\ g_events' = Append(g_events, "wechat failed")
    /\ g_pc' = "exit"
    /\ exit_code' = 1
    /\ UNCHANGED <<g_quotes, dividends, push_outcome, g_i, rows, analyses, tallyVars,
                   totals, pages_url, feeVars, pricingVars, techVars, configVars,
                   riskVars, portVars, fundVars>>

\* the cache file a run can find: none, or one an earlier run wrote at time 0
\* for the same symbols; the run starts the same day or seven days later
CacheFilesFound ==
    {Absent} \cup
    { [cached_at |-> 0,
       stocks |-> [sym \in FundSymbols |-> FetchInfo(sym, 0, [x \in FundSymbols |-> TRUE])]] }

ReportInit ==
    /\ g_pc = "start"
    /\ g_quotes \in { [sym \in FundSymbols |-> IF sym = "D05.SI" THEN q1 ELSE q2] :
                         q1 \in QuoteChoices(ConfiguredPortfolio[1]),
                         q2 \in QuoteChoices(ConfiguredPortfolio[2]) }
    /\ dividends \in DividendConfigs
    /\ push_outcome \in [github : {"ok", "fail"}, wechat : {"ok", "fail"}]
    /\ g_i = 0 /\ rows = <<>> /\ analyses = <<>>
    /\ t_inv = 0 /\ t_val = 0 /\ t_pnl = 0 /\ t_sell = 0 /\ t_cpf = 0 /\ t_div = 0
    /\ totals = Absent /\ g_events = <<>> /\ pages_url = Absent /\ exit_code = None
    /\ now \in {1, CacheMaxAgeDays * TicksPerDay}
    /\ cache_file \in CacheFilesFound
    /\ f_symbols = <<>> /\ f_result = Absent /\ f_calls = 0 /\ refetches = 0
    /\ FeeIdle /\ PricingIdle /\ TechIdle /\ ConfigIdle /\ RiskIdle /\ PortIdle

ReportNext ==
    \/ ReportStart
    \/ StockSkipped
    \/ StockAnalysed
    \/ NoRows
    \/ ComputeTotals
    \/ WriteReport
    \/ PushGithubOk
    \/ PushGithubFails
    \/ PushWechatOk
    \/ PushWechatFails

SpecReport == ReportInit /\ [][ReportNext]_vars

-----------------------------------------------------------------------------
(* Claims about the pricing engine.                                         *)

\* net proceeds of selling `shares` at price P, as a caller computes them
NetAt(P) == P * shares - FeeOf(solver, P * shares)

\* C1: for every positive cost and share count under the standard fee
\* parameters, the returned price P has converged:
\* P*shares - fee(P*shares) >= cost*shares + fee(cost*shares).
C1_Converged ==
    p_pc = "done" =>
        NetAt(result) >= cost * shares + FeeOf(solver, cost * shares)

\* one cent: the tolerance granted to the returned price
PriceTolerance == TicksPerDollar \div 100

\* C2: the returned price is the smallest one that recovers the total buy-in
\* cost: a price lower than it by more than the tolerance does not recover it.
C2_Smallest ==
    p_pc = "done" => NetAt(result - PriceTolerance) < total_buy_cost

Scenario == cost = 545900 /\ shares = 100

\* C3 as stated: in the scenario cost=54.59, shares=100 the solved price has
\* net proceeds >= 5488.78 and lies between 54.88 and 54.90.
C3_Original ==
    (Scenario /\ p_pc = "done") =>
        /\ result * shares - FeeOf(solver, result * shares) >= 54887800
        /\ result >= 548800 /\ result <= 549000

\* C3 amended: in the scenario cost=54.59, shares=100 the solved price has
\* net proceeds >= 5488.78 and lies between 55.18 and 55.19, about 1.1% above
\* cost: it covers the sell-side fee as well.
C3_Scenario ==
    (Scenario /\ p_pc = "done") =>
        /\ result * shares - FeeOf(solver, result * shares) >= 54887800
        /\ result >= 551800 /\ result <= 551900

C3_Witness == Scenario /\ p_pc = "done" /\ iters = 1 /\ total_buy_cost = 54887836

\* fee = max(amount*commissionRate, minCommission) + amount*clearingFeeRate
\*       + amount*tradingFeeRate + settlementFee
TransactionFee(amount) ==
    Max(RoundMulDiv(amount, CommissionRate, PartsPerMillion), MinCommission)
        + RoundMulDiv(amount, ClearingFeeRate, PartsPerMillion)
        + RoundMulDiv(amount, TradingFeeRate, PartsPerMillion)
        + SettlementFee

\* C4: the fee charged is the stated formula for every amount, and the buy
\* leg and the sell leg of a trade are charged by the same formula.
C4_FeeFormula ==
    /\ p_pc # "call" => buy_fee = TransactionFee(buy_amount)
    /\ p_pc \in {"test", "return", "done", "raised"} =>
           /\ sell_fee = TransactionFee(sell_amt)
           /\ net = sell_amt - TransactionFee(sell_amt)

C4_Witness ==
    /\ p_pc = "test" /\ iters > 0
    /\ sell_amt > buy_amount
    /\ MulRate(sell_amt, CommissionRate) > MinCommission

\* C5: the fee is non-decreasing in the amount, and below the commission
\* floor it is minCommission + amount*(clearingFeeRate + tradingFeeRate)
\* + settlementFee (to the rounding of the products, one tick).
C5_Monotone ==
    /\ (q_n = 2 /\ q_prev_amount <= q_amount) => q_prev_fee <= q_fee
    /\ (q_n >= 1 /\ MulRate(q_amount, CommissionRate) < MinCommission) =>
           Abs(q_fee - (MinCommission
                          + MulRate(q_amount, ClearingFeeRate + TradingFeeRate)
                          + SettlementFee)) <= 1

C5_Witness ==
    /\ q_n = 2
    /\ q_prev_amount < KinkAmount /\ q_amount > KinkAmount
    /\ q_prev_fee < q_fee

\* C6: for every positive cost and share count the call completes without
\* raising and returns a strictly positive price.
C6_NoRaise ==
    /\ p_pc # "raised"
    /\ p_pc = "done" => result > 0

-----------------------------------------------------------------------------
(* Claims about technicals.analyze.                                         *)

Returned == t_pc = "done"

\* C7: analyze returns None exactly when the series is missing or has fewer
\* than 26 bars, and a snapshot for every series of 26 or more bars.
C7_NoneIffShort ==
    Returned =>
        IF hist = Absent THEN snapshot = Absent
        ELSE (snapshot = Absent) <=> (Len(hist.close) < 26)

C7_Witness ==
    /\ Returned /\ hist # Absent /\ snapshot # Absent
    /\ Len(hist.close) = 26

\* C8: the composite score analyze returns is within [0, 100], whatever the
\* series and the configured weights, however many adjustments fire.
C8_ScoreClamped ==
    /\ t_pc \in {"signal", "return"} => (score >= 0 /\ score <= 100)
    /\ (Returned /\ snapshot # Absent) =>
           (snapshot.score >= 0 /\ snapshot.score <= 100)

C8_Witness ==
    /\ Returned /\ snapshot # Absent
    /\ snapshot.score = 100
    /\ RawScore(ind, weights) > 100

C10_RsiBounded ==
    ind # Absent =>
        /\ ind.rsi6 >= 0 /\ ind.rsi6 <= 100 * IndScale
        /\ ind.rsi14 >= 0 /\ ind.rsi14 <= 100 * IndScale

\* a window of 14 bars with gains and no loss (the zero loss is floored),
\* ending on bars that do not move
C10_Witness ==
    /\ Returned /\ snapshot # Absent
    /\ \A i \in (Len(hist.close) - 13)..(Len(hist.close) - 3) :
           hist.close[i] > hist.close[i - 1]
    /\ \A i \in (Len(hist.close) - 2)..Len(hist.close) :
           hist.close[i] = hist.close[i - 1]
    /\ ind.rsi14 = 100 * IndScale

-----------------------------------------------------------------------------
(* Claims about the risk functions of one symbol.                           *)

\* C11: for the same return series, whenever both are computable, calc_var
\* yields var_99 <= var_95.
C11_VarOrdered ==
    IF var = Absent THEN TRUE
    ELSE IF var.var_95 = Absent \/ var.var_99 = Absent THEN TRUE
    ELSE var.var_99.v <= var.var_95.v

C11_Witness ==
    /\ r_entry = Direct /\ r_pc = "done"
    /\ Len(returns) >= 10
    /\ var.var_95 # Absent /\ var.var_99 # Absent
    /\ var.var_99.v < var.var_95.v

\* C13: below its minimum size each risk function returns its absent result
\* and the call goes on: calc_volatility under 5 returns, calc_max_drawdown
\* under 2 closes, calc_var under 10 returns, calc_sharpe_ratio and
\* calc_sortino_ratio under 20 returns.
C13_AbsentBelowMinimum ==
    /\ (vol # Absent /\ Len(returns) < 5) =>
           (vol.daily_vol = Absent /\ vol.annual_vol = Absent)
    /\ (mdd # Absent /\ Len(r_hist.close) < 2) =>
           (mdd.max_drawdown = Absent /\ mdd.peak_date = Absent
                /\ mdd.trough_date = Absent)
    /\ (var # Absent /\ Len(returns) < 10) =>
           (var.var_95 = Absent /\ var.var_99 = Absent)
    /\ (r_pc \in {"sortino", "return", "done"} /\ Len(returns) < 20) =>
           sharpe = Absent
    /\ (r_pc \in {"return", "done"} /\ Len(returns) < 20) => sortino = Absent
    /\ (r_entry = Direct /\ r_pc = "done") =>
           (vol # Absent /\ mdd # Absent /\ var # Absent)

C13_Witness ==
    /\ r_entry = Direct /\ r_pc = "done"
    /\ Len(returns) = 4 /\ Len(r_hist.close) = 1
    /\ vol.daily_vol = Absent /\ mdd.max_drawdown = Absent
    /\ var.var_95 = Absent /\ sharpe = Absent /\ sortino = Absent

AnalyzeDone == r_entry = AnalyzeStockRisk /\ r_pc = "done"

\* C14 as stated: in the result of analyze_stock_risk a metric is present
\* whenever its own minimum sample size is met (5 returns for volatility,
\* 2 closes for the drawdown, 10 returns for VaR).
C14_Original ==
    (AnalyzeDone /\ r_hist # Absent) =>
        LET n == Len(r_hist.close)
        IN  /\ n - 1 >= 5 =>
                IF stock_risk = Absent THEN FALSE ELSE stock_risk.annual_vol # Absent
            /\ n >= 2 =>
                IF stock_risk = Absent THEN FALSE ELSE stock_risk.max_drawdown # Absent
            /\ n - 1 >= 10 =>
                IF stock_risk = Absent THEN FALSE ELSE stock_risk.var_95 # Absent

\* C14 amended: for a history of at least 20 rows the result is present and
\* in it volatility, drawdown and VaR are present whether or not Sharpe or
\* Sortino is; for a history of fewer than 20 rows, no history or a failed
\* fetch the whole result is absent.
C14_PerMetric ==
    AnalyzeDone =>
        IF supplied = Failure \/ supplied = Absent THEN stock_risk = Absent
        ELSE IF Len(supplied.close) < 20 THEN stock_risk = Absent
        ELSE /\ stock_risk # Absent
             /\ stock_risk.daily_vol # Absent /\ stock_risk.annual_vol # Absent
             /\ stock_risk.max_drawdown # Absent
             /\ stock_risk.var_95 # Absent /\ stock_risk.var_99 # Absent
             /\ (stock_risk.sharpe_ratio # Absent) => (stock_risk.data_points >= 20)

C14_Witness ==
    /\ AnalyzeDone /\ stock_risk # Absent
    /\ Len(r_hist.close) = 20
    /\ stock_risk.sharpe_ratio = Absent /\ stock_risk.sortino_ratio = Absent
    /\ stock_risk.annual_vol # Absent /\ stock_risk.var_99 # Absent

\* 25 returns, all positive, each larger than the one before
PositiveRising ==
    /\ Len(returns) = 25
    /\ \A i \in 1..25 : returns[i] > 0
    /\ \A i \in 2..25 : returns[i] > returns[i - 1]

\* C17 as stated: for every series of 25 positive, increasing returns
\* calc_sharpe_ratio is strictly positive and calc_sortino_ratio is absent.
C17_Original ==
    (r_entry = Direct /\ r_pc = "done" /\ PositiveRising) =>
        /\ IF sharpe = Absent THEN FALSE ELSE sharpe.v > 0
        /\ sortino = Absent

\* C17 amended: for every series of 25 increasing returns that are all at
\* least the daily risk-free rate 0.032/252, calc_sharpe_ratio is strictly
\* positive and calc_sortino_ratio is absent.
C17_AboveRiskFree ==
    (r_entry = Direct /\ r_pc = "done" /\ PositiveRising
        /\ \A i \in 1..25 : ~BelowRiskFree(returns[i])) =>
        /\ IF sharpe = Absent THEN FALSE ELSE sharpe.v > 0
        /\ sortino = Absent

C17_Witness ==
    /\ r_entry = Direct /\ r_pc = "done" /\ PositiveRising
    /\ \A i \in 1..25 : ~BelowRiskFree(returns[i])
    /\ sharpe # Absent /\ sortino = Absent

-----------------------------------------------------------------------------
(* Claims about the portfolio-level risk.                                   *)

\* C12: whenever calc_portfolio_volatility returns a result (the weights
\* are positive and sum to 1), the diversification benefit, undiversified
\* minus portfolio volatility, is non-negative up to 0.01 of a percentage
\* point, whatever the correlation of the two return series.
C12_BenefitNonNegative ==
    port_vol # Absent =>
        /\ \A i \in 1..Len(inv_weights) : inv_weights[i] > 0
        /\ Abs(SumOver(inv_weights, 1, Len(inv_weights)) - 10^6) <= 1
        /\ port_vol.diversification_benefit # NaN
        /\ port_vol.diversification_benefit.v >= -1

\* two series that are not perfectly correlated, and a benefit
C12_Witness ==
    /\ a_pc = "done" /\ port_vol # Absent /\ corr # Absent
    /\ outcome = AllOk
    /\ corr.m[<<1, 2>>] # NaN /\ corr.m[<<1, 2>>].v < 10^4
    /\ corr.m[<<1, 2>>].v > 0
    /\ port_vol.diversification_benefit.v > 0

\* C15: no call to an analytic engine performs I/O or reads or writes state
\* shared across invocations: config.json is never opened, the module-level
\* _cache stays as the import left it and no request goes to the supplier.
C15_Pure == cache = Absent /\ file_reads = 0 /\ fetches = 0

\* the rating of a portfolio volatility of pv hundredths of a percent
LevelAt(pv) == RiskLevel(PortfolioVolatility(Some(pv), Some(pv), Some(0)))

\* C16: the tier follows the reported portfolio volatility with fixed
\* boundaries, below 10% low, from 10% below 20% moderate, from 20% below
\* 30% elevated, 30% or more high, and there is a tier exactly when the
\* portfolio volatility is present.
C16_TierByVolatility ==
    /\ a_pc \in {"return", "done"} =>
           /\ (risk_level # None) <=> (port_vol # Absent)
           /\ port_vol # Absent =>
                  LET pv == port_vol.portfolio_annual_vol.v
                  IN  /\ (risk_level = "low") <=> (pv < 1000)
                      /\ (risk_level = "moderate") <=> (pv >= 1000 /\ pv < 2000)
                      /\ (risk_level = "elevated") <=> (pv >= 2000 /\ pv < 3000)
                      /\ (risk_level = "high") <=> (pv >= 3000)
    /\ a_pc = "done" => portfolio_risk.risk_level = risk_level
    /\ LevelAt(999) = "low" /\ LevelAt(1000) = "moderate"
    /\ LevelAt(1999) = "moderate" /\ LevelAt(2000) = "elevated"
    /\ LevelAt(2999) = "elevated" /\ LevelAt(3000) = "high"

C16_Witness ==
    /\ a_pc = "done" /\ port_vol # Absent
    /\ port_vol.portfolio_annual_vol.v >= 2000
    /\ port_vol.portfolio_annual_vol.v < 3000
    /\ portfolio_risk.risk_level = "elevated"

-----------------------------------------------------------------------------
(* Claims about the MACD cross and the break-even iteration.                *)

\* DIF - DEA of the returned snapshot's series, k bars before the last
HistogramAgo(k) ==
    LET macd == CalcMacd(hist.close)
    IN  macd.histogram[Len(hist.close) - k]

\* the bars ago, within the 5 last transitions, where DIF - DEA goes from
\* <= 0 to > 0, and where it goes from > 0 to <= 0 or from >= 0 to < 0
UpCrossings == {k \in 0..4 : HistogramAgo(k + 1) <= 0 /\ HistogramAgo(k) > 0}

DownCrossingsStated == {k \in 0..4 : HistogramAgo(k + 1) > 0 /\ HistogramAgo(k) <= 0}

DownCrossings == {k \in 0..4 : HistogramAgo(k + 1) >= 0 /\ HistogramAgo(k) < 0}

\* what is reported for the crossings ups and downs: the most recent one
Reported(ups, downs) ==
    IF ups \cup downs = {} THEN <<None, None>>
    ELSE LET k == MinOf(ups \cup downs)
         IN  <<IF k \in ups THEN "golden" ELSE "death", k>>

\* C18 as stated: the cross reported is the most recent change of sign of
\* DIF - DEA in the trailing bars, golden from <= 0 to > 0 and death from > 0
\* to <= 0, with the bars ago, and none exactly when there is no such change.
C18_Original ==
    (Returned /\ snapshot # Absent) =>
        <<ind.macd_cross, ind.macd_cross_days>>
            = Reported(UpCrossings, DownCrossingsStated)

\* C18 amended: as stated, with the death cross a change from >= 0 to < 0.
C18_CrossDetection ==
    (Returned /\ snapshot # Absent) =>
        /\ <<ind.macd_cross, ind.macd_cross_days>>
               = Reported(UpCrossings, DownCrossings)
        /\ snapshot.indicators.macd_cross = ind.macd_cross
        /\ snapshot.indicators.macd_cross_days = ind.macd_cross_days

\* a death cross on the last bar, out of DIF = DEA on the bar before
C18_Witness ==
    /\ Returned /\ snapshot # Absent
    /\ ind.macd_cross = "death" /\ ind.macd_cross_days = 0
    /\ HistogramAgo(1) = 0 /\ HistogramAgo(0) < 0

\* C19: the iteration starts at target = cost, stops at the first iterate
\* with net >= totalBuyCost or after the bound (20 in lib.portfolio, 10 in
\* daily_portfolio_report), always comes to its end and returns the last
\* iterate, converged or not.
C19_Iteration ==
    /\ (p_pc \in {"loop", "test"} /\ iters = 0) => target = cost
    /\ iters <= BoundOf(solver)
    /\ (p_pc = "return" /\ iters < BoundOf(solver)) => net >= total_buy_cost
    /\ p_pc = "done" => result = target
    /\ p_pc # "raised"

\* both legs of the trade pay the commission rate, not the floor
NonFloor == MulRate(buy_amount, CommissionRate) >= MinCommission

\* C20: where the commission floor does not bind, the gap between
\* totalBuyCost and the net proceeds at the current target is smaller at
\* each iterate than at the one before.
C20_GapShrinks ==
    [][(p_pc = "loop" /\ p_pc' = "test" /\ iters >= 1 /\ NonFloor) =>
          Abs(total_buy_cost - net') < Abs(total_buy_cost - net)]_vars

C20_Witness ==
    /\ p_pc = "test" /\ iters = 1 /\ NonFloor
    /\ net >= total_buy_cost
    /\ net - total_buy_cost < buy_fee

-----------------------------------------------------------------------------
(* Claims about calc_portfolio_volatility and analyze_portfolio_risk.       *)

\* the sessions on which the fetch of the portfolio volatility has a return
\* of symbol sym: none when the fetch gave no usable history
VolSessions(sym) ==
    LET h == Fetched("vol", sym)
    IN  IF ~Usable(h) THEN {} ELSE FirstReturn(h)..LastReturn(h)

\* the sessions on which every symbol of the portfolio has a return
CommonSessions ==
    {d \in 1..(MaxBars + MaxBars) :
        \A i \in 1..Len(portfolio) : d \in VolSessions(portfolio[i].symbol)}

\* the returns of symbol sym on the common sessions
CommonReturns(sym) ==
    LET h    == market[sym]
        rets == CalcDailyReturns(h.close)
        lo   == MinOf(CommonSessions)
    IN  Series([k \in 1..Cardinality(CommonSessions) |-> rets[lo + k - 1 - h.first]])

\* the share of the symbol of position i in the invested value, in millionths
ShareOf(i) ==
    RoundMulDiv(portfolio[i].cost * portfolio[i].shares, 10^6,
                portfolio[1].cost * portfolio[1].shares
                  + portfolio[2].cost * portfolio[2].shares)

\* the figures of two symbols by the textbook formulas: the undiversified
\* volatility w1 s1 + w2 s2 of the annualized deviations s1, s2, and the
\* portfolio volatility, the root of w1^2 c11 + 2 w1 w2 c12 + w2^2 c22
TwoAssetFigures ==
    LET x        == CommonReturns(portfolio[1].symbol)
        y        == CommonReturns(portfolio[2].symbol)
        w1       == ShareOf(1)
        w2       == ShareOf(2)
        weighted == RoundMulDiv(w1, IndividualVol(x), 10^6)
                      + RoundMulDiv(w2, IndividualVol(y), 10^6)
        variance == RoundMulDiv(RoundMulDiv(w1, w1, 10^6), AnnualCov(x, x), 10^6)
                      + 2 * RoundMulDiv(RoundMulDiv(w1, w2, 10^6), AnnualCov(x, y), 10^6)
                      + RoundMulDiv(RoundMulDiv(w2, w2, 10^6), AnnualCov(y, y), 10^6)
        root     == SqrtNearest(variance)
    IN  PortfolioVolatility(Percent(root), Percent(weighted), Percent(weighted - root))

\* C21: calc_portfolio_volatility returns None exactly when the fetch of some
\* symbol gave no usable history or the symbols have fewer than 10 common
\* sessions of returns, and otherwise the portfolio, undiversified and
\* diversification figures of the symbols' returns on the common sessions
\* with weight i applied to symbol i (to 0.01 of a percentage point).
C21_AbsentOrFigures ==
    a_pc = "done" =>
        /\ portfolio_risk.portfolio_vol = port_vol
        /\ (port_vol = Absent) <=> (Cardinality(CommonSessions) < 10)
        /\ port_vol # Absent =>
               LET expected == TwoAssetFigures
               IN  /\ port_vol.portfolio_annual_vol # NaN
                   /\ Abs(port_vol.portfolio_annual_vol.v
                            - expected.portfolio_annual_vol) <= 1
                   /\ Abs(port_vol.undiversified_vol.v
                            - expected.undiversified_vol) <= 1
                   /\ Abs(port_vol.diversification_benefit.v
                            - expected.diversification_benefit) <= 1

\* unequal weights on symbols of unequal volatility, on exactly 10 common
\* sessions
C21_Witness ==
    /\ a_pc = "done" /\ port_vol # Absent
    /\ ShareOf(1) > ShareOf(2)
    /\ Cardinality(CommonSessions) = 10
    /\ port_vol.portfolio_annual_vol.v > 2 * 1000
    /\ port_vol.undiversified_vol.v > port_vol.portfolio_annual_vol.v

\* C26 as stated: the reported diversification_benefit is the reported
\* undiversified_vol minus the reported portfolio_annual_vol.
C26_Original ==
    (a_pc = "done" /\ port_vol # Absent) =>
        port_vol.diversification_benefit.v
            = port_vol.undiversified_vol.v - port_vol.portfolio_annual_vol.v

\* C26 amended: the reported diversification_benefit is within 0.01 of a
\* percentage point of the reported undiversified_vol minus the reported
\* portfolio_annual_vol, each of the three being rounded on its own.
C26_ConsistentToRounding ==
    (a_pc = "done" /\ port_vol # Absent) =>
        Abs(port_vol.diversification_benefit.v
              - (port_vol.undiversified_vol.v - port_vol.portfolio_annual_vol.v)) <= 1

\* a result whose three figures differ by 0.01
C26_Witness ==
    /\ a_pc = "done" /\ port_vol # Absent
    /\ port_vol.diversification_benefit.v > 0
    /\ port_vol.diversification_benefit.v
         # port_vol.undiversified_vol.v - port_vol.portfolio_annual_vol.v

\* C28: in every result of analyze_portfolio_risk with the portfolio
\* volatility present, the risk result of every symbol is present too.
C28_StockRisksPresent ==
    (a_pc = "done" /\ portfolio_risk.portfolio_vol # Absent) =>
        \A i \in 1..Len(portfolio) : portfolio_risk.stock_risks[i] # Absent

-----------------------------------------------------------------------------
(* Claims about calc_max_drawdown and calc_var.                             *)

\* calc_max_drawdown has returned on a series of at least 2 closes
DrawdownDone ==
    /\ r_pc \in {"var", "sharpe", "sortino", "return", "done"}
    /\ r_hist # Absent /\ mdd # Absent
    /\ Len(r_hist.close) >= 2

\* the close of session row i less its running maximum, and that maximum
Below(i) == r_hist.close[i] - CumMax(r_hist.close, i)

\* C22: for a series of at least 2 closes the drawdown reported is <= 0,
\* the trough is the session of the most negative drawdown against the
\* running maximum, the peak is the session of the highest close at or
\* before the trough, and the peak does not follow the trough.
C22_PeakBeforeTrough ==
    DrawdownDone =>
        LET close == r_hist.close
            t     == mdd.trough_date.v - r_hist.first + 1
            p     == mdd.peak_date.v - r_hist.first + 1
        IN  /\ mdd.max_drawdown # Absent /\ mdd.max_drawdown.v <= 0
            /\ t \in 1..Len(close) /\ p \in 1..t
            /\ mdd.max_drawdown.v = RoundMulDiv(Below(t), 10^4, CumMax(close, t))
            /\ \A j \in 1..Len(close) :
                   Below(t) * CumMax(close, j) <= Below(j) * CumMax(close, t)
            /\ \A j \in 1..t : close[j] <= close[p]
            /\ mdd.peak_date.v <= mdd.trough_date.v

\* a drawdown whose peak is later exceeded
C22_Witness ==
    /\ DrawdownDone
    /\ mdd.max_drawdown.v < 0
    /\ mdd.peak_date.v < mdd.trough_date.v
    /\ \E j \in 1..Len(r_hist.close) :
           /\ j > mdd.trough_date.v - r_hist.first + 1
           /\ r_hist.close[j] > r_hist.close[mdd.peak_date.v - r_hist.first + 1]

\* C27: calc_var returns one entry for each requested confidence level,
\* holding the value computed for that level, for the computed result and
\* for the insufficient-data result alike.
C27_EntryPerLevel ==
    (r_entry = Direct /\ r_pc = "done") =>
        /\ Cardinality(DOMAIN var_levels) = Len(confidence_levels)
        /\ \A i \in 1..Len(confidence_levels) :
               /\ VarKey(confidence_levels[i]) \in DOMAIN var_levels
               /\ var_levels[VarKey(confidence_levels[i])] =
                      (IF Len(returns) < 10 THEN Absent
                       ELSE Some(PercentileBelow(returns, confidence_levels[i])))

-----------------------------------------------------------------------------
(* Claims about the weights of the score and about the two iteration        *)
(* bounds.                                                                  *)

\* C23: every adjustment of the composite score is a named weight of the
\* configuration: when the configuration sets every weight to Heavy or its
\* opposite, the score before clamping differs from the base 50 by a sum of
\* them, a multiple of Heavy, whether or not there is a MACD cross.
C23_NamedWeights ==
    (t_pc = "clamp" /\ weights = HeavyWeights) =>
        (score - 50) % Heavy = 0

RECURSIVE Iterate(_, _, _, _, _)
\* the loop of a solver from target t with k turns left: the price it
\* returns, or the failure of its division
Iterate(s, t, total, n, k) ==
    IF k = 0 THEN Some(t)
    ELSE LET proceeds == NetProceeds(s, t * n)
         IN  IF proceeds >= total THEN Some(t)
             ELSE IF proceeds = 0 THEN Failure
             ELSE Iterate(s, Rescale(t, total, proceeds), total, n, k - 1)

\* the price solver s returns for cost c and n shares
BreakevenPrice(s, c, n) == Iterate(s, c, c * n + FeeOf(s, c * n), n, BoundOf(s))

\* C29: for the same cost and shares the 10-iteration solver of
\* daily_portfolio_report returns the price the 20-iteration solvers of
\* lib.portfolio and send_wechat_cpf return.
C29_SamePrice ==
    (solver = DailyReport /\ p_pc = "done") =>
        /\ BreakevenPrice(LibPortfolio, cost, shares) = Some(result)
        /\ BreakevenPrice(SendWechat, cost, shares) = Some(result)

-----------------------------------------------------------------------------
(* Claims about fetch_fundamentals.                                          *)

\* the step is a call of fetch_fundamentals
FundCall == f_calls' = f_calls + 1

\* the file exists and its data are younger than 7 days
FileYoung ==
    IF cache_file = Absent THEN FALSE
    ELSE (now - cache_file.cached_at) \div TicksPerDay < CacheMaxAgeDays

\* the file holds an entry for every symbol of the call
FileCovers(symbols) ==
    IF cache_file = Absent THEN FALSE
    ELSE \A i \in 1..Len(symbols) : symbols[i] \in DOMAIN cache_file.stocks

-----------------------------------------------------------------------------
(* Claims about generate_html_report.main.                                   *)

RECURSIVE SumNetProfit(_, _)
\* the sum of the net_profit of the first k analyses
SumNetProfit(as, k) == IF k = 0 THEN 0 ELSE as[k].net_profit + SumNetProfit(as, k - 1)

\* C25: whichever symbols have no quotes, the net profit of totals is the sum
\* of the net_profit of the analyses the run reports.
C25_NetProfitIsSumOfAnalyses ==
    totals # Absent => totals.net_profit = SumNetProfit(analyses, Len(analyses))

\* the outward steps of a run that wrote, pushed to GitHub and pushed to WeChat
FullRuns ==
    { <<"report.html written", g, w>> :
          g \in {"github pushed", "github failed"}, w \in {"wechat pushed", "wechat failed"} }

\* the initial parts of seq
Prefixes(seq) == { SubSeq(seq, 1, k) : k \in 0..Len(seq) }

\* C30: a run takes its outward steps in the order write report.html, push to
\* GitHub, push to WeChat; after a failed GitHub push the run goes on to the
\* WeChat push with the pages URL, and ends only after it; a run in which no
\* symbol yields quotes exits with status 1 having written and pushed nothing.
C30_WriteGithubWechat ==
    /\ \E full \in FullRuns : g_events \in Prefixes(full)
    /\ (Len(g_events) = 2 /\ push_outcome.github = "fail")
           => (g_pc = "wechat" /\ pages_url = PagesUrl /\ exit_code = None)
    /\ (g_pc \in {"done", "exit"} /\ rows # <<>>)
           => (g_events \in FullRuns /\ pages_url = PagesUrl)
    /\ (\A sym \in FundSymbols : g_quotes[sym] = Absent)
           => /\ g_events = <<>> /\ rows = <<>> /\ totals = Absent
              /\ g_pc \in {"start", "loop", "exit"}
              /\ (g_i = Len(ConfiguredPortfolio) /\ g_pc # "loop")
                     => (g_pc = "exit" /\ exit_code = 1)
    /\ (g_pc = "exit" /\ rows = <<>>)
           => (\A sym \in FundSymbols : g_quotes[sym] = Absent)

\* a finished run whose GitHub push failed and whose WeChat push went out
C30_Witness ==
    /\ g_pc = "done" /\ exit_code = 0
    /\ g_events = <<"report.html written", "github failed", "wechat pushed">>
    /\ pages_url = PagesUrl

====
